---- MODULE Spec2Model ----
(***************************************************************************)
(* Model of the natural-language-to-SQL service: the query validator and   *)
(* executor (lib/db/executor), and the provider orchestrator               *)
(* (lib/llm/sql-generator with the gemini and claude clients).             *)
(*                                                                         *)
(* A text is a sequence of one-character strings, so that trimming,        *)
(* lowercasing and the regular expressions of the source are computed      *)
(* character by character.  The messages of the errors that the executor   *)
(* catches and throws are texts; the other error messages are sequences of *)
(* words.                                                                  *)
(***************************************************************************)
EXTENDS Integers, Sequences, FiniteSets, TLC

VARIABLES
    exSql,        \* executor: the sql argument of the call
    exKind,       \* executor: "none", "execute" or "explain"
    exPc,         \* executor: "idle", "awaitDb" (pool.query pending), "done"
    exValidation, \* executor: what validateQuery returned for exSql
    exIssued,     \* executor: statements handed to pool.query by the current call
    exResult,     \* executor: how the current call ended
    envProvider,  \* process.env.LLM_PROVIDER
    envKeys,      \* which of GEMINI_API_KEY / CLAUDE_API_KEY are set
    clients,      \* the memoized transport clients (genAI, client)
    genPc,        \* generateSQL: "idle", "awaitPrimary", "awaitFallback", "done"
    genPref,      \* generateSQL: the preferredProvider argument
    genPrimary,   \* generateSQL: const primary
    genFallback,  \* generateSQL: const fallback
    genCalls,     \* generateSQL: the provider calls made, in order
    genPending,   \* generateSQL: the promise of the provider call being awaited
    genPrimaryError, \* generateSQL: the value caught as primaryError
    genResult,    \* generateSQL: how the current call ended
    catalog,      \* schema: what the database catalog holds (the query results)
    schemaCache,  \* schema: the module variable schemaCache
    clock,        \* schema: the number of `new Date()` stamps handed out
    icall,        \* schema: the state of each caller's introspectSchema call
    sinceClear,   \* schema: an introspection stored its schema since start / last clear
    gotSchema,    \* schema: what the last getCachedSchema call returned
    llmReply,     \* prompts: the response argument of parseLLMResponse
    llmParsed,    \* prompts: what parseLLMResponse returned
    promptArgs,   \* prompts: the arguments of buildUserPrompt
    promptText,   \* prompts: what buildUserPrompt returned
    postPc,       \* POST /api/query: where the handler is
    postBody,     \* POST /api/query: what request.json() gives
    postLlm,      \* POST /api/query: const llmResponse
    postResponse, \* POST /api/query: the response sent
    postLog,      \* POST /api/query: the calls the handler made, in order
    getResponse,  \* GET /api/schema: the response sent to each caller
    connPc,       \* GET /api/connection: where the handler is
    connResponse, \* GET /api/connection: the response sent
    pcall,        \* provider clients: each caller's generateSQLWith<provider> call
    fmtSchema,    \* schema: the argument of formatSchemaForLLM
    fmtText       \* schema: what formatSchemaForLLM returned

varsExec == <<exSql, exKind, exPc, exValidation, exIssued, exResult>>
varsGen == <<envProvider, envKeys, clients, genPc, genPref, genPrimary,
             genFallback, genCalls, genPending, genPrimaryError, genResult>>
varsSchema == <<catalog, schemaCache, clock, icall, sinceClear, gotSchema>>
varsPure == <<llmReply, llmParsed, promptArgs, promptText>>
varsPost == <<postPc, postBody, postLlm, postResponse, postLog>>
varsRoutes == <<getResponse, connPc, connResponse>>
varsFormat == <<fmtSchema, fmtText>>
varsOther == <<getResponse, connPc, connResponse, pcall, fmtSchema, fmtText>>
vars == <<exSql, exKind, exPc, exValidation, exIssued, exResult,
          envProvider, envKeys, clients, genPc, genPref, genPrimary,
          genFallback, genCalls, genPending, genPrimaryError, genResult,
          catalog, schemaCache, clock, icall, sinceClear, gotSchema,
          llmReply, llmParsed, promptArgs, promptText,
          postPc, postBody, postLlm, postResponse, postLog,
          getResponse, connPc, connResponse, pcall, fmtSchema, fmtText>>

(***************************************************************************)
(* Bounds of the model.                                                    *)
(***************************************************************************)
\* an input text is the concatenation of at most MaxFrags fragments
MaxFrags == 3

(***************************************************************************)
(* Characters and texts.                                                   *)
(***************************************************************************)
UpperChars == <<"A","B","C","D","E","F","G","H","I","J","K","L","M",
                "N","O","P","Q","R","S","T","U","V","W","X","Y","Z">>
LowerChars == <<"a","b","c","d","e","f","g","h","i","j","k","l","m",
                "n","o","p","q","r","s","t","u","v","w","x","y","z">>
DigitChars == {"0","1","2","3","4","5","6","7","8","9"}

\* a character that a string of this language cannot hold is the text
\* "U+" followed by its code point in four upper-case hexadecimal digits
VerticalTab == "U+000B"
NoBreakSpace == "U+00A0"
ByteOrderMark == "U+FEFF"
LineSeparator == "U+2028"
ParagraphSeparator == "U+2029"
\* the space separators of Unicode other than U+0020 and U+00A0
SpaceSeparators ==
    {"U+1680", "U+2000", "U+2001", "U+2002", "U+2003", "U+2004", "U+2005",
     "U+2006", "U+2007", "U+2008", "U+2009", "U+200A", "U+202F", "U+205F",
     "U+3000"}

\* the white space of the JSON grammar
IsJsonSpace(c) == c \in {" ", "\t", "\n", "\r"}

\* \s of a JavaScript regular expression, and what String.trim removes:
\* white space and line terminators
IsSpace(c) ==
    \/ c \in {" ", "\t", "\n", "\r", "\f"}
    \/ c \in {VerticalTab, NoBreakSpace, ByteOrderMark, LineSeparator,
              ParagraphSeparator}
    \/ c \in SpaceSeparators
\* \d
IsDigit(c) == c \in DigitChars
\* \w
UpperSet == {UpperChars[i] : i \in 1..26}
LowerSet == {LowerChars[i] : i \in 1..26}
IsWord(c) == c \in UpperSet \/ c \in LowerSet \/ IsDigit(c) \/ c = "_"

\* the lower-case letter of each of A-Z, and the reverse
LowerOf == [c \in UpperSet |-> LowerChars[CHOOSE i \in 1..26 : UpperChars[i] = c]]
UpperOf == [c \in LowerSet |-> UpperChars[CHOOSE i \in 1..26 : LowerChars[i] = c]]
\* the letters that a regular expression with the i flag (and without the u
\* flag) takes for one another: no character beyond U+007F ever stands for
\* one of A-Z or a-z
LowerChar(c) == IF c \in UpperSet THEN LowerOf[c] ELSE c
UpperChar(c) == IF c \in LowerSet THEN UpperOf[c] ELSE c

GraveAccent == "GRAVE"

HexChars == <<"0","1","2","3","4","5","6","7","8","9","A","B","C","D","E","F">>
\* the characters U+0020 to U+007E, in the order of their code points
AsciiChars ==
    <<" ", "!", "\"", "#", "$", "%", "&", "'", "(", ")", "*", "+",
      ",", "-", ".", "/", "0", "1", "2", "3", "4", "5", "6", "7",
      "8", "9", ":", ";", "<", "=", ">", "?", "@", "A", "B", "C",
      "D", "E", "F", "G", "H", "I", "J", "K", "L", "M", "N", "O",
      "P", "Q", "R", "S", "T", "U", "V", "W", "X", "Y", "Z", "[",
      "\\", "]", "^", "_", GraveAccent, "a", "b", "c", "d", "e", "f", "g",
      "h", "i", "j", "k", "l", "m", "n", "o", "p", "q", "r", "s",
      "t", "u", "v", "w", "x", "y", "z", "{", "|", "}", "~">>

\* the code point n in four hexadecimal digits
Hex4(n) ==
    HexChars[(n \div 4096) + 1] \o HexChars[((n \div 256) % 16) + 1]
        \o HexChars[((n \div 16) % 16) + 1] \o HexChars[(n % 16) + 1]

\* the character of code point n
CharOfCode(n) ==
    CASE n \in 32..126 -> AsciiChars[n - 31]
      [] n = 9 -> "\t"
      [] n = 10 -> "\n"
      [] n = 12 -> "\f"
      [] n = 13 -> "\r"
      [] OTHER -> "U+" \o Hex4(n)

\* the characters U+0009 to U+007E that a string holds as they are
PlainChars == {AsciiChars[k] : k \in 1..Len(AsciiChars)} \cup {"\t", "\n", "\f", "\r"}

(***************************************************************************)
(* String.prototype.toLowerCase.  A text is a sequence of UTF-16 code      *)
(* units; a code point above U+FFFF is a high surrogate followed by a low  *)
(* surrogate.  The tables hold the lower-case mappings and the Cased and   *)
(* Case_Ignorable properties of the Unicode Character Database, version    *)
(* 17.                                                                     *)
(***************************************************************************)
HighSurrogates == {CharOfCode(n) : n \in 55296..56319}
LowSurrogates == {CharOfCode(n) : n \in 56320..57343}

\* the code units of code point n
UnitsOf(n) ==
    IF n < 65536
    THEN <<CharOfCode(n)>>
    ELSE <<CharOfCode(55296 + ((n - 65536) \div 1024)),
           CharOfCode(56320 + ((n - 65536) % 1024))>>

\* the code point that the code unit s[i] is, or is half of
CodePointAt(s, i) ==
    IF s[i] \in HighSurrogates /\ i < Len(s) /\ s[i + 1] \in LowSurrogates
    THEN <<s[i], s[i + 1]>>
    ELSE IF s[i] \in LowSurrogates /\ i > 1 /\ s[i - 1] \in HighSurrogates
         THEN <<s[i - 1], s[i]>>
         ELSE <<s[i]>>

\* <<first, last, step, delta>>: each of the code points first, first + step,
\* ..., last has the lower-case form that lies delta code points after it
\* (beyond A-Z, and beyond U+0130 and U+03A3, which have rules of their own)
LowerRuns ==
    <<
     <<192, 214, 1, 32>>, <<216, 222, 1, 32>>, <<256, 302, 2, 1>>,
     <<306, 310, 2, 1>>, <<313, 327, 2, 1>>, <<330, 374, 2, 1>>,
     <<376, 376, 1, -121>>, <<377, 381, 2, 1>>, <<385, 385, 1, 210>>,
     <<386, 388, 2, 1>>, <<390, 390, 1, 206>>, <<391, 391, 1, 1>>,
     <<393, 394, 1, 205>>, <<395, 395, 1, 1>>, <<398, 398, 1, 79>>,
     <<399, 399, 1, 202>>, <<400, 400, 1, 203>>, <<401, 401, 1, 1>>,
     <<403, 403, 1, 205>>, <<404, 404, 1, 207>>, <<406, 406, 1, 211>>,
     <<407, 407, 1, 209>>, <<408, 408, 1, 1>>, <<412, 412, 1, 211>>,
     <<413, 413, 1, 213>>, <<415, 415, 1, 214>>, <<416, 420, 2, 1>>,
     <<422, 422, 1, 218>>, <<423, 423, 1, 1>>, <<425, 425, 1, 218>>,
     <<428, 428, 1, 1>>, <<430, 430, 1, 218>>, <<431, 431, 1, 1>>,
     <<433, 434, 1, 217>>, <<435, 437, 2, 1>>, <<439, 439, 1, 219>>,
     <<440, 440, 1, 1>>, <<444, 444, 1, 1>>, <<452, 452, 1, 2>>,
     <<453, 453, 1, 1>>, <<455, 455, 1, 2>>, <<456, 456, 1, 1>>,
     <<458, 458, 1, 2>>, <<459, 475, 2, 1>>, <<478, 494, 2, 1>>,
     <<497, 497, 1, 2>>, <<498, 500, 2, 1>>, <<502, 502, 1, -97>>,
     <<503, 503, 1, -56>>, <<504, 542, 2, 1>>, <<544, 544, 1, -130>>,
     <<546, 562, 2, 1>>, <<570, 570, 1, 10795>>, <<571, 571, 1, 1>>,
     <<573, 573, 1, -163>>, <<574, 574, 1, 10792>>, <<577, 577, 1, 1>>,
     <<579, 579, 1, -195>>, <<580, 580, 1, 69>>, <<581, 581, 1, 71>>,
     <<582, 590, 2, 1>>, <<880, 882, 2, 1>>, <<886, 886, 1, 1>>,
     <<895, 895, 1, 116>>, <<902, 902, 1, 38>>, <<904, 906, 1, 37>>,
     <<908, 908, 1, 64>>, <<910, 911, 1, 63>>, <<913, 929, 1, 32>>,
     <<932, 939, 1, 32>>, <<975, 975, 1, 8>>, <<984, 1006, 2, 1>>,
     <<1012, 1012, 1, -60>>, <<1015, 1015, 1, 1>>, <<1017, 1017, 1, -7>>,
     <<1018, 1018, 1, 1>>, <<1021, 1023, 1, -130>>, <<1024, 1039, 1, 80>>,
     <<1040, 1071, 1, 32>>, <<1120, 1152, 2, 1>>, <<1162, 1214, 2, 1>>,
     <<1216, 1216, 1, 15>>, <<1217, 1229, 2, 1>>, <<1232, 1326, 2, 1>>,
     <<1329, 1366, 1, 48>>, <<4256, 4293, 1, 7264>>, <<4295, 4295, 1, 7264>>,
     <<4301, 4301, 1, 7264>>, <<5024, 5103, 1, 38864>>, <<5104, 5109, 1, 8>>,
     <<7305, 7305, 1, 1>>, <<7312, 7354, 1, -3008>>, <<7357, 7359, 1, -3008>>,
     <<7680, 7828, 2, 1>>, <<7838, 7838, 1, -7615>>, <<7840, 7934, 2, 1>>,
     <<7944, 7951, 1, -8>>, <<7960, 7965, 1, -8>>, <<7976, 7983, 1, -8>>,
     <<7992, 7999, 1, -8>>, <<8008, 8013, 1, -8>>, <<8025, 8031, 2, -8>>,
     <<8040, 8047, 1, -8>>, <<8072, 8079, 1, -8>>, <<8088, 8095, 1, -8>>,
     <<8104, 8111, 1, -8>>, <<8120, 8121, 1, -8>>, <<8122, 8123, 1, -74>>,
     <<8124, 8124, 1, -9>>, <<8136, 8139, 1, -86>>, <<8140, 8140, 1, -9>>,
     <<8152, 8153, 1, -8>>, <<8154, 8155, 1, -100>>, <<8168, 8169, 1, -8>>,
     <<8170, 8171, 1, -112>>, <<8172, 8172, 1, -7>>, <<8184, 8185, 1, -128>>,
     <<8186, 8187, 1, -126>>, <<8188, 8188, 1, -9>>, <<8486, 8486, 1, -7517>>,
     <<8490, 8490, 1, -8383>>, <<8491, 8491, 1, -8262>>, <<8498, 8498, 1, 28>>,
     <<8544, 8559, 1, 16>>, <<8579, 8579, 1, 1>>, <<9398, 9423, 1, 26>>,
     <<11264, 11311, 1, 48>>, <<11360, 11360, 1, 1>>, <<11362, 11362, 1, -10743>>,
     <<11363, 11363, 1, -3814>>, <<11364, 11364, 1, -10727>>, <<11367, 11371, 2, 1>>,
     <<11373, 11373, 1, -10780>>, <<11374, 11374, 1, -10749>>, <<11375, 11375, 1, -10783>>,
     <<11376, 11376, 1, -10782>>, <<11378, 11378, 1, 1>>, <<11381, 11381, 1, 1>>,
     <<11390, 11391, 1, -10815>>, <<11392, 11490, 2, 1>>, <<11499, 11501, 2, 1>>,
     <<11506, 11506, 1, 1>>, <<42560, 42604, 2, 1>>, <<42624, 42650, 2, 1>>,
     <<42786, 42798, 2, 1>>, <<42802, 42862, 2, 1>>, <<42873, 42875, 2, 1>>,
     <<42877, 42877, 1, -35332>>, <<42878, 42886, 2, 1>>, <<42891, 42891, 1, 1>>,
     <<42893, 42893, 1, -42280>>, <<42896, 42898, 2, 1>>, <<42902, 42920, 2, 1>>,
     <<42922, 42922, 1, -42308>>, <<42923, 42923, 1, -42319>>, <<42924, 42924, 1, -42315>>,
     <<42925, 42925, 1, -42305>>, <<42926, 42926, 1, -42308>>, <<42928, 42928, 1, -42258>>,
     <<42929, 42929, 1, -42282>>, <<42930, 42930, 1, -42261>>, <<42931, 42931, 1, 928>>,
     <<42932, 42946, 2, 1>>, <<42948, 42948, 1, -48>>, <<42949, 42949, 1, -42307>>,
     <<42950, 42950, 1, -35384>>, <<42951, 42953, 2, 1>>, <<42955, 42955, 1, -42343>>,
     <<42956, 42970, 2, 1>>, <<42972, 42972, 1, -42561>>, <<42997, 42997, 1, 1>>,
     <<65313, 65338, 1, 32>>, <<66560, 66599, 1, 40>>, <<66736, 66771, 1, 40>>,
     <<66928, 66938, 1, 39>>, <<66940, 66954, 1, 39>>, <<66956, 66962, 1, 39>>,
     <<66964, 66965, 1, 39>>, <<68736, 68786, 1, 64>>, <<68944, 68965, 1, 32>>,
     <<71840, 71871, 1, 32>>, <<93760, 93791, 1, 32>>, <<93856, 93880, 1, 27>>,
     <<125184, 125217, 1, 34>>
    >>

LowerPairs ==
    UNION { { <<UnitsOf(n), UnitsOf(n + LowerRuns[r][4])>> :
                n \in { m \in LowerRuns[r][1]..LowerRuns[r][2] :
                          (m - LowerRuns[r][1]) % LowerRuns[r][3] = 0 } } :
            r \in 1..Len(LowerRuns) }
LowerDomain == { p[1] : p \in LowerPairs }
LowerMap == [u \in LowerDomain |-> (CHOOSE p \in LowerPairs : p[1] = u)[2]]

\* <<first, last>>: the code points that are cased and not case-ignorable
CasedRanges ==
    <<
     <<65, 90>>, <<97, 122>>, <<170, 170>>, <<181, 181>>,
     <<186, 186>>, <<192, 214>>, <<216, 246>>, <<248, 442>>,
     <<444, 447>>, <<452, 659>>, <<662, 687>>, <<880, 883>>,
     <<886, 887>>, <<891, 893>>, <<895, 895>>, <<902, 902>>,
     <<904, 906>>, <<908, 908>>, <<910, 929>>, <<931, 1013>>,
     <<1015, 1153>>, <<1162, 1327>>, <<1329, 1366>>, <<1376, 1416>>,
     <<4256, 4293>>, <<4295, 4295>>, <<4301, 4301>>, <<4304, 4346>>,
     <<4349, 4351>>, <<5024, 5109>>, <<5112, 5117>>, <<7296, 7306>>,
     <<7312, 7354>>, <<7357, 7359>>, <<7424, 7467>>, <<7531, 7543>>,
     <<7545, 7578>>, <<7680, 7957>>, <<7960, 7965>>, <<7968, 8005>>,
     <<8008, 8013>>, <<8016, 8023>>, <<8025, 8025>>, <<8027, 8027>>,
     <<8029, 8029>>, <<8031, 8061>>, <<8064, 8116>>, <<8118, 8124>>,
     <<8126, 8126>>, <<8130, 8132>>, <<8134, 8140>>, <<8144, 8147>>,
     <<8150, 8155>>, <<8160, 8172>>, <<8178, 8180>>, <<8182, 8188>>,
     <<8450, 8450>>, <<8455, 8455>>, <<8458, 8467>>, <<8469, 8469>>,
     <<8473, 8477>>, <<8484, 8484>>, <<8486, 8486>>, <<8488, 8488>>,
     <<8490, 8493>>, <<8495, 8500>>, <<8505, 8505>>, <<8508, 8511>>,
     <<8517, 8521>>, <<8526, 8526>>, <<8544, 8575>>, <<8579, 8580>>,
     <<9398, 9449>>, <<11264, 11387>>, <<11390, 11492>>, <<11499, 11502>>,
     <<11506, 11507>>, <<11520, 11557>>, <<11559, 11559>>, <<11565, 11565>>,
     <<42560, 42605>>, <<42624, 42651>>, <<42786, 42863>>, <<42865, 42887>>,
     <<42891, 42894>>, <<42896, 42972>>, <<42997, 42998>>, <<43002, 43002>>,
     <<43824, 43866>>, <<43872, 43880>>, <<43888, 43967>>, <<64256, 64262>>,
     <<64275, 64279>>, <<65313, 65338>>, <<65345, 65370>>, <<66560, 66639>>,
     <<66736, 66771>>, <<66776, 66811>>, <<66928, 66938>>, <<66940, 66954>>,
     <<66956, 66962>>, <<66964, 66965>>, <<66967, 66977>>, <<66979, 66993>>,
     <<66995, 67001>>, <<67003, 67004>>, <<68736, 68786>>, <<68800, 68850>>,
     <<68944, 68965>>, <<68976, 68997>>, <<71840, 71903>>, <<93760, 93823>>,
     <<93856, 93880>>, <<93883, 93907>>, <<119808, 119892>>, <<119894, 119964>>,
     <<119966, 119967>>, <<119970, 119970>>, <<119973, 119974>>, <<119977, 119980>>,
     <<119982, 119993>>, <<119995, 119995>>, <<119997, 120003>>, <<120005, 120069>>,
     <<120071, 120074>>, <<120077, 120084>>, <<120086, 120092>>, <<120094, 120121>>,
     <<120123, 120126>>, <<120128, 120132>>, <<120134, 120134>>, <<120138, 120144>>,
     <<120146, 120485>>, <<120488, 120512>>, <<120514, 120538>>, <<120540, 120570>>,
     <<120572, 120596>>, <<120598, 120628>>, <<120630, 120654>>, <<120656, 120686>>,
     <<120688, 120712>>, <<120714, 120744>>, <<120746, 120770>>, <<120772, 120779>>,
     <<122624, 122633>>, <<122635, 122654>>, <<122661, 122666>>, <<125184, 125251>>,
     <<127280, 127305>>, <<127312, 127337>>, <<127344, 127369>>
    >>
\* <<first, last>>: the case-ignorable code points
CaseIgnorableRanges ==
    <<
     <<39, 39>>, <<46, 46>>, <<58, 58>>, <<94, 94>>,
     <<96, 96>>, <<168, 168>>, <<173, 173>>, <<175, 175>>,
     <<180, 180>>, <<183, 184>>, <<688, 879>>, <<884, 885>>,
     <<890, 890>>, <<900, 901>>, <<903, 903>>, <<1155, 1161>>,
     <<1369, 1369>>, <<1375, 1375>>, <<1425, 1469>>, <<1471, 1471>>,
     <<1473, 1474>>, <<1476, 1477>>, <<1479, 1479>>, <<1524, 1524>>,
     <<1536, 1541>>, <<1552, 1562>>, <<1564, 1564>>, <<1600, 1600>>,
     <<1611, 1631>>, <<1648, 1648>>, <<1750, 1757>>, <<1759, 1768>>,
     <<1770, 1773>>, <<1807, 1807>>, <<1809, 1809>>, <<1840, 1866>>,
     <<1958, 1968>>, <<2027, 2037>>, <<2042, 2042>>, <<2045, 2045>>,
     <<2070, 2093>>, <<2137, 2139>>, <<2184, 2184>>, <<2192, 2193>>,
     <<2199, 2207>>, <<2249, 2306>>, <<2362, 2362>>, <<2364, 2364>>,
     <<2369, 2376>>, <<2381, 2381>>, <<2385, 2391>>, <<2402, 2403>>,
     <<2417, 2417>>, <<2433, 2433>>, <<2492, 2492>>, <<2497, 2500>>,
     <<2509, 2509>>, <<2530, 2531>>, <<2558, 2558>>, <<2561, 2562>>,
     <<2620, 2620>>, <<2625, 2626>>, <<2631, 2632>>, <<2635, 2637>>,
     <<2641, 2641>>, <<2672, 2673>>, <<2677, 2677>>, <<2689, 2690>>,
     <<2748, 2748>>, <<2753, 2757>>, <<2759, 2760>>, <<2765, 2765>>,
     <<2786, 2787>>, <<2810, 2815>>, <<2817, 2817>>, <<2876, 2876>>,
     <<2879, 2879>>, <<2881, 2884>>, <<2893, 2893>>, <<2901, 2902>>,
     <<2914, 2915>>, <<2946, 2946>>, <<3008, 3008>>, <<3021, 3021>>,
     <<3072, 3072>>, <<3076, 3076>>, <<3132, 3132>>, <<3134, 3136>>,
     <<3142, 3144>>, <<3146, 3149>>, <<3157, 3158>>, <<3170, 3171>>,
     <<3201, 3201>>, <<3260, 3260>>, <<3263, 3263>>, <<3270, 3270>>,
     <<3276, 3277>>, <<3298, 3299>>, <<3328, 3329>>, <<3387, 3388>>,
     <<3393, 3396>>, <<3405, 3405>>, <<3426, 3427>>, <<3457, 3457>>,
     <<3530, 3530>>, <<3538, 3540>>, <<3542, 3542>>, <<3633, 3633>>,
     <<3636, 3642>>, <<3654, 3662>>, <<3761, 3761>>, <<3764, 3772>>,
     <<3782, 3782>>, <<3784, 3790>>, <<3864, 3865>>, <<3893, 3893>>,
     <<3895, 3895>>, <<3897, 3897>>, <<3953, 3966>>, <<3968, 3972>>,
     <<3974, 3975>>, <<3981, 3991>>, <<3993, 4028>>, <<4038, 4038>>,
     <<4141, 4144>>, <<4146, 4151>>, <<4153, 4154>>, <<4157, 4158>>,
     <<4184, 4185>>, <<4190, 4192>>, <<4209, 4212>>, <<4226, 4226>>,
     <<4229, 4230>>, <<4237, 4237>>, <<4253, 4253>>, <<4348, 4348>>,
     <<4957, 4959>>, <<5906, 5908>>, <<5938, 5939>>, <<5970, 5971>>,
     <<6002, 6003>>, <<6068, 6069>>, <<6071, 6077>>, <<6086, 6086>>,
     <<6089, 6099>>, <<6103, 6103>>, <<6109, 6109>>, <<6155, 6159>>,
     <<6211, 6211>>, <<6277, 6278>>, <<6313, 6313>>, <<6432, 6434>>,
     <<6439, 6440>>, <<6450, 6450>>, <<6457, 6459>>, <<6679, 6680>>,
     <<6683, 6683>>, <<6742, 6742>>, <<6744, 6750>>, <<6752, 6752>>,
     <<6754, 6754>>, <<6757, 6764>>, <<6771, 6780>>, <<6783, 6783>>,
     <<6823, 6823>>, <<6832, 6877>>, <<6880, 6891>>, <<6912, 6915>>,
     <<6964, 6964>>, <<6966, 6970>>, <<6972, 6972>>, <<6978, 6978>>,
     <<7019, 7027>>, <<7040, 7041>>, <<7074, 7077>>, <<7080, 7081>>,
     <<7083, 7085>>, <<7142, 7142>>, <<7144, 7145>>, <<7149, 7149>>,
     <<7151, 7153>>, <<7212, 7219>>, <<7222, 7223>>, <<7288, 7293>>,
     <<7376, 7378>>, <<7380, 7392>>, <<7394, 7400>>, <<7405, 7405>>,
     <<7412, 7412>>, <<7416, 7417>>, <<7468, 7530>>, <<7544, 7544>>,
     <<7579, 7679>>, <<8125, 8125>>, <<8127, 8129>>, <<8141, 8143>>,
     <<8157, 8159>>, <<8173, 8175>>, <<8189, 8190>>, <<8203, 8207>>,
     <<8216, 8217>>, <<8228, 8228>>, <<8231, 8231>>, <<8234, 8238>>,
     <<8288, 8292>>, <<8294, 8303>>, <<8305, 8305>>, <<8319, 8319>>,
     <<8336, 8348>>, <<8400, 8432>>, <<11388, 11389>>, <<11503, 11505>>,
     <<11631, 11631>>, <<11647, 11647>>, <<11744, 11775>>, <<11823, 11823>>,
     <<12293, 12293>>, <<12330, 12333>>, <<12337, 12341>>, <<12347, 12347>>,
     <<12441, 12446>>, <<12540, 12542>>, <<40981, 40981>>, <<42232, 42237>>,
     <<42508, 42508>>, <<42607, 42610>>, <<42612, 42621>>, <<42623, 42623>>,
     <<42652, 42655>>, <<42736, 42737>>, <<42752, 42785>>, <<42864, 42864>>,
     <<42888, 42890>>, <<42993, 42996>>, <<43000, 43001>>, <<43010, 43010>>,
     <<43014, 43014>>, <<43019, 43019>>, <<43045, 43046>>, <<43052, 43052>>,
     <<43204, 43205>>, <<43232, 43249>>, <<43263, 43263>>, <<43302, 43309>>,
     <<43335, 43345>>, <<43392, 43394>>, <<43443, 43443>>, <<43446, 43449>>,
     <<43452, 43453>>, <<43471, 43471>>, <<43493, 43494>>, <<43561, 43566>>,
     <<43569, 43570>>, <<43573, 43574>>, <<43587, 43587>>, <<43596, 43596>>,
     <<43632, 43632>>, <<43644, 43644>>, <<43696, 43696>>, <<43698, 43700>>,
     <<43703, 43704>>, <<43710, 43711>>, <<43713, 43713>>, <<43741, 43741>>,
     <<43756, 43757>>, <<43763, 43764>>, <<43766, 43766>>, <<43867, 43871>>,
     <<43881, 43883>>, <<44005, 44005>>, <<44008, 44008>>, <<44013, 44013>>,
     <<64286, 64286>>, <<64434, 64450>>, <<65024, 65039>>, <<65043, 65043>>,
     <<65056, 65071>>, <<65106, 65106>>, <<65109, 65109>>, <<65279, 65279>>,
     <<65287, 65287>>, <<65294, 65294>>, <<65306, 65306>>, <<65342, 65342>>,
     <<65344, 65344>>, <<65392, 65392>>, <<65438, 65439>>, <<65507, 65507>>,
     <<65529, 65531>>, <<66045, 66045>>, <<66272, 66272>>, <<66422, 66426>>,
     <<67456, 67461>>, <<67463, 67504>>, <<67506, 67514>>, <<68097, 68099>>,
     <<68101, 68102>>, <<68108, 68111>>, <<68152, 68154>>, <<68159, 68159>>,
     <<68325, 68326>>, <<68900, 68903>>, <<68942, 68942>>, <<68969, 68973>>,
     <<68975, 68975>>, <<69291, 69292>>, <<69317, 69317>>, <<69370, 69375>>,
     <<69446, 69456>>, <<69506, 69509>>, <<69633, 69633>>, <<69688, 69702>>,
     <<69744, 69744>>, <<69747, 69748>>, <<69759, 69761>>, <<69811, 69814>>,
     <<69817, 69818>>, <<69821, 69821>>, <<69826, 69826>>, <<69837, 69837>>,
     <<69888, 69890>>, <<69927, 69931>>, <<69933, 69940>>, <<70003, 70003>>,
     <<70016, 70017>>, <<70070, 70078>>, <<70089, 70092>>, <<70095, 70095>>,
     <<70191, 70193>>, <<70196, 70196>>, <<70198, 70199>>, <<70206, 70206>>,
     <<70209, 70209>>, <<70367, 70367>>, <<70371, 70378>>, <<70400, 70401>>,
     <<70459, 70460>>, <<70464, 70464>>, <<70502, 70508>>, <<70512, 70516>>,
     <<70587, 70592>>, <<70606, 70606>>, <<70608, 70608>>, <<70610, 70610>>,
     <<70625, 70626>>, <<70712, 70719>>, <<70722, 70724>>, <<70726, 70726>>,
     <<70750, 70750>>, <<70835, 70840>>, <<70842, 70842>>, <<70847, 70848>>,
     <<70850, 70851>>, <<71090, 71093>>, <<71100, 71101>>, <<71103, 71104>>,
     <<71132, 71133>>, <<71219, 71226>>, <<71229, 71229>>, <<71231, 71232>>,
     <<71339, 71339>>, <<71341, 71341>>, <<71344, 71349>>, <<71351, 71351>>,
     <<71453, 71453>>, <<71455, 71455>>, <<71458, 71461>>, <<71463, 71467>>,
     <<71727, 71735>>, <<71737, 71738>>, <<71995, 71996>>, <<71998, 71998>>,
     <<72003, 72003>>, <<72148, 72151>>, <<72154, 72155>>, <<72160, 72160>>,
     <<72193, 72202>>, <<72243, 72248>>, <<72251, 72254>>, <<72263, 72263>>,
     <<72273, 72278>>, <<72281, 72283>>, <<72330, 72342>>, <<72344, 72345>>,
     <<72544, 72544>>, <<72546, 72548>>, <<72550, 72550>>, <<72752, 72758>>,
     <<72760, 72765>>, <<72767, 72767>>, <<72850, 72871>>, <<72874, 72880>>,
     <<72882, 72883>>, <<72885, 72886>>, <<73009, 73014>>, <<73018, 73018>>,
     <<73020, 73021>>, <<73023, 73029>>, <<73031, 73031>>, <<73104, 73105>>,
     <<73109, 73109>>, <<73111, 73111>>, <<73177, 73177>>, <<73459, 73460>>,
     <<73472, 73473>>, <<73526, 73530>>, <<73536, 73536>>, <<73538, 73538>>,
     <<73562, 73562>>, <<78896, 78912>>, <<78919, 78933>>, <<90398, 90409>>,
     <<90413, 90415>>, <<92912, 92916>>, <<92976, 92982>>, <<92992, 92995>>,
     <<93504, 93506>>, <<93547, 93548>>, <<94031, 94031>>, <<94095, 94111>>,
     <<94176, 94177>>, <<94179, 94180>>, <<94194, 94195>>, <<110576, 110579>>,
     <<110581, 110587>>, <<110589, 110590>>, <<113821, 113822>>, <<113824, 113827>>,
     <<118528, 118573>>, <<118576, 118598>>, <<119143, 119145>>, <<119155, 119170>>,
     <<119173, 119179>>, <<119210, 119213>>, <<119362, 119364>>, <<121344, 121398>>,
     <<121403, 121452>>, <<121461, 121461>>, <<121476, 121476>>, <<121499, 121503>>,
     <<121505, 121519>>, <<122880, 122886>>, <<122888, 122904>>, <<122907, 122913>>,
     <<122915, 122916>>, <<122918, 122922>>, <<122928, 122989>>, <<123023, 123023>>,
     <<123184, 123197>>, <<123566, 123566>>, <<123628, 123631>>, <<124139, 124143>>,
     <<124398, 124399>>, <<124643, 124643>>, <<124646, 124646>>, <<124654, 124655>>,
     <<124661, 124661>>, <<124671, 124671>>, <<125136, 125142>>, <<125252, 125259>>,
     <<127995, 127999>>, <<917505, 917505>>, <<917536, 917631>>, <<917760, 917999>>
    >>
Cased ==
    UNION { { UnitsOf(n) : n \in CasedRanges[r][1]..CasedRanges[r][2] } :
            r \in 1..Len(CasedRanges) }
CaseIgnorable ==
    UNION { { UnitsOf(n) : n \in CaseIgnorableRanges[r][1]..CaseIgnorableRanges[r][2] } :
            r \in 1..Len(CaseIgnorableRanges) }

CapitalIWithDot == "U+0130"
CombiningDotAbove == "U+0307"
CapitalSigma == "U+03A3"
SmallSigma == "U+03C3"
SmallFinalSigma == "U+03C2"

\* how the code point of s[j] counts in the context of a capital sigma
CaseClass(s, j) ==
    IF CodePointAt(s, j) \in CaseIgnorable
    THEN "ignorable"
    ELSE IF CodePointAt(s, j) \in Cased THEN "cased" ELSE "other"

\* Final_Sigma: a cased letter stands before s[i], with case-ignorable
\* characters at most in between, and none stands after it in that way
FinalSigma(s, i) ==
    /\ \E j \in 1..(i - 1) :
          /\ CaseClass(s, j) = "cased"
          /\ \A k \in (j + 1)..(i - 1) : CaseClass(s, k) = "ignorable"
    /\ ~\E j \in (i + 1)..Len(s) :
          /\ CaseClass(s, j) = "cased"
          /\ \A k \in (i + 1)..(j - 1) : CaseClass(s, k) = "ignorable"

\* the code unit that stands for s[i] in the lower-cased text (the first of
\* the two that stand for U+0130)
LowerUnit(s, i) ==
    IF s[i] \in UpperSet THEN LowerOf[s[i]]
    ELSE IF s[i] \in PlainChars THEN s[i]
    ELSE IF s[i] = CapitalIWithDot THEN "i"
    ELSE IF s[i] = CapitalSigma
         THEN IF FinalSigma(s, i) THEN SmallFinalSigma ELSE SmallSigma
    ELSE IF CodePointAt(s, i) \in LowerDomain
         THEN IF Len(CodePointAt(s, i)) = 2 /\ s[i] \in LowSurrogates
              THEN LowerMap[CodePointAt(s, i)][2]
              ELSE LowerMap[CodePointAt(s, i)][1]
         ELSE s[i]

RECURSIVE WithDots(_, _, _)
WithDots(units, s, i) ==
    IF i > Len(s)
    THEN << >>
    ELSE (IF s[i] = CapitalIWithDot
          THEN <<units[i], CombiningDotAbove>>
          ELSE <<units[i]>>) \o WithDots(units, s, i + 1)

\* String.prototype.toLowerCase
ToLowerCase(s) ==
    LET units == [i \in 1..Len(s) |-> LowerUnit(s, i)]
    IN  IF \A i \in 1..Len(s) : s[i] # CapitalIWithDot
        THEN units
        ELSE WithDots(units, s, 1)

\* String.prototype.trim
Trim(s) ==
    IF \A i \in 1..Len(s) : IsSpace(s[i])
    THEN <<>>
    ELSE LET first == CHOOSE i \in 1..Len(s) :
                          /\ ~IsSpace(s[i])
                          /\ \A j \in 1..(i-1) : IsSpace(s[j])
             last == CHOOSE i \in 1..Len(s) :
                          /\ ~IsSpace(s[i])
                          /\ \A j \in (i+1)..Len(s) : IsSpace(s[j])
         IN  SubSeq(s, first, last)

\* String.prototype.startsWith
StartsWith(s, w) == Len(w) <= Len(s) /\ SubSeq(s, 1, Len(w)) = w

\* String.prototype.includes
IncludesText(s, w) ==
    \E i \in 0..(Len(s) - Len(w)) : SubSeq(s, i + 1, i + Len(w)) = w

\* the word w stands in s at position p, compared without regard to case
\* (a literal of a regular expression that carries the i flag)
WordAtI(s, p, w) ==
    /\ p >= 1
    /\ p + Len(w) - 1 <= Len(s)
    /\ \A k \in 1..Len(w) : LowerChar(s[p + k - 1]) = LowerChar(w[k])

\* s[from..to] is white space only (an empty range included)
AllSpace(s, from, to) == \A k \in from..to : IsSpace(s[k])

\* decimal rendering of a natural number, as a template literal prints it
RECURSIVE ToDigits(_)
ToDigits(n) ==
    LET d == <<"0","1","2","3","4","5","6","7","8","9">>[(n % 10) + 1]
    IN  IF n < 10 THEN <<d>> ELSE ToDigits(n \div 10) \o <<d>>

(***************************************************************************)
(* lib/db/executor: configuration.                                         *)
(***************************************************************************)
QUERY_TIMEOUT == 30000
MAX_RESULT_ROWS == 1000

(***************************************************************************)
(* lib/db/executor: validateQuery.                                         *)
(***************************************************************************)
kwInsert == <<"i","n","s","e","r","t">>
kwUpdate == <<"u","p","d","a","t","e">>
kwDelete == <<"d","e","l","e","t","e">>
kwDrop == <<"d","r","o","p">>
kwTruncate == <<"t","r","u","n","c","a","t","e">>
kwAlter == <<"a","l","t","e","r">>
kwCreate == <<"c","r","e","a","t","e">>
kwGrant == <<"g","r","a","n","t">>
kwRevoke == <<"r","e","v","o","k","e">>
kwExec == <<"e","x","e","c">>
kwExecute == <<"e","x","e","c","u","t","e">>
kwSelect == <<"s","e","l","e","c","t">>
kwWith == <<"w","i","t","h">>
kwLimit == <<"L","I","M","I","T">>

\* the keywords of the eleven patterns /^\s*<kw>\s+/i
LeadingKeywords == {kwInsert, kwUpdate, kwDelete, kwDrop, kwTruncate, kwAlter,
                    kwCreate, kwGrant, kwRevoke, kwExec, kwExecute}
\* the alternation of the twelfth pattern /;\s*(...)\s+/i
StackedKeywords == {kwInsert, kwUpdate, kwDelete, kwDrop, kwTruncate, kwAlter,
                    kwCreate, kwGrant, kwRevoke}

\* /^\s*<kw>\s+/i .test(s)
MatchesLeading(s, kw) ==
    \E i \in 0..Len(s) :
        /\ AllSpace(s, 1, i)
        /\ WordAtI(s, i + 1, kw)
        /\ i + Len(kw) + 1 <= Len(s)
        /\ IsSpace(s[i + Len(kw) + 1])

\* /;\s*(insert|update|...|revoke)\s+/i .test(s)
MatchesStacked(s) ==
    \E p \in 1..Len(s) :
        /\ s[p] = ";"
        /\ \E i \in p..Len(s) :
              /\ AllSpace(s, p + 1, i)
              /\ \E kw \in StackedKeywords :
                    /\ WordAtI(s, i + 1, kw)
                    /\ i + Len(kw) + 1 <= Len(s)
                    /\ IsSpace(s[i + Len(kw) + 1])

\* some pattern of forbiddenPatterns matches
MatchesForbidden(s) ==
    \/ \E kw \in LeadingKeywords : MatchesLeading(s, kw)
    \/ MatchesStacked(s)

\* const normalizedSql = sql.trim().toLowerCase()
NormalizeSql(sql) == ToLowerCase(Trim(sql))

ErrOnlySelect == <<"Only", "SELECT", "queries", "are", "allowed.", "Data",
                   "modification", "operations", "are", "disabled.">>
ErrMustStart == <<"Query", "must", "start", "with", "SELECT", "or", "WITH",
                  "(for", "CTEs).">>

\* validation that forgets the check on how the text starts
validateQueryNoStartCheck(sql) ==
    IF MatchesForbidden(NormalizeSql(sql))
    THEN [valid |-> FALSE, error |-> ErrOnlySelect]
    ELSE [valid |-> TRUE, error |-> <<>>]

validateQuery(sql) ==
    LET normalizedSql == NormalizeSql(sql)
    IN  IF MatchesForbidden(normalizedSql)
        THEN [valid |-> FALSE, error |-> ErrOnlySelect]
        ELSE IF ~StartsWith(normalizedSql, kwSelect) /\ ~StartsWith(normalizedSql, kwWith)
        THEN [valid |-> FALSE, error |-> ErrMustStart]
        ELSE [valid |-> TRUE, error |-> <<>>]

(***************************************************************************)
(* lib/db/executor: executeQuery and explainQuery.                         *)
(***************************************************************************)
\* /\bLIMIT\s+\d+/i .test(s)
HasLimit(s) ==
    \E p \in 1..Len(s) :
        /\ p = 1 \/ ~IsWord(s[p - 1])
        /\ WordAtI(s, p, kwLimit)
        /\ \E q \in (p + Len(kwLimit))..Len(s) :
              /\ AllSpace(s, p + Len(kwLimit), q)
              /\ q + 1 <= Len(s)
              /\ IsDigit(s[q + 1])

\* s.replace(/;\s*$/, '')
StripTrailingSemicolon(s) ==
    IF \E p \in 1..Len(s) : s[p] = ";" /\ AllSpace(s, p + 1, Len(s))
    THEN LET p == CHOOSE p \in 1..Len(s) :
                      /\ s[p] = ";" /\ AllSpace(s, p + 1, Len(s))
                      /\ \A r \in 1..(p - 1) :
                            ~(s[r] = ";" /\ AllSpace(s, r + 1, Len(s)))
         IN  SubSeq(s, 1, p - 1)
    ELSE s

\* the text of the statement executeQuery hands to pool.query
SafeSql(sql) ==
    LET trimmed == Trim(sql)
    IN  IF HasLimit(trimmed)
        THEN trimmed
        ELSE StripTrailingSemicolon(trimmed)
                 \o <<" ","L","I","M","I","T"," ">> \o ToDigits(MAX_RESULT_ROWS)

\* the text of the statement explainQuery hands to pool.query
ExplainSql(sql) == <<"E","X","P","L","A","I","N"," ">> \o sql

\* The message of an error of the executor is a text, character by
\* character, as the SQL texts are.
txtStatementTimeout ==
    <<"s","t","a","t","e","m","e","n","t"," ","t","i","m","e","o","u",
      "t">>
txtTimedOutAfter ==
    <<"Q","u","e","r","y"," ","t","i","m","e","d"," ","o","u","t"," ",
      "a","f","t","e","r"," ">>
txtConsider ==
    <<"m","s","."," ","C","o","n","s","i","d","e","r"," ","a","d","d",
      "i","n","g"," ","f","i","l","t","e","r","s"," ","o","r"," ","L",
      "I","M","I","T"," ","c","l","a","u","s","e",".">>
txtExecutionError ==
    <<"Q","u","e","r","y"," ","e","x","e","c","u","t","i","o","n"," ",
      "e","r","r","o","r",":"," ">>

\* error.message.includes('statement timeout')
IncludesStatementTimeout(message) == IncludesText(message, txtStatementTimeout)

\* `Query timed out after ${QUERY_TIMEOUT}ms. Consider adding filters or
\* LIMIT clause.`
MsgTimedOut == txtTimedOutAfter \o ToDigits(QUERY_TIMEOUT) \o txtConsider
\* `Query execution error: ${error.message}`
MsgExecutionError(message) == txtExecutionError \o message

NoResult == [kind |-> "none", isError |-> FALSE, message |-> <<>>]
Rows == [kind |-> "rows", isError |-> FALSE, message |-> <<>>]
Thrown(isError, message) == [kind |-> "throw", isError |-> isError, message |-> message]

\* what pool.query can settle to: rows, or a rejection with some value
msgCanceling ==
    <<"c","a","n","c","e","l","i","n","g"," ","s","t","a","t","e","m",
      "e","n","t"," ","d","u","e"," ","t","o"," ","s","t","a","t","e",
      "m","e","n","t"," ","t","i","m","e","o","u","t">>
msgSyntaxError ==
    <<"s","y","n","t","a","x"," ","e","r","r","o","r">>
msgNoSuchColumn ==
    <<"c","o","l","u","m","n"," ","\"","s","t","a","t","e","m","e","n",
      "t"," ","t","i","m","e","o","u","t","\""," ","d","o","e","s"," ",
      "n","o","t"," ","e","x","i","s","t">>
msgBoom ==
    <<"b","o","o","m">>

DbOutcomes ==
    { Rows,
      Thrown(TRUE, msgCanceling),
      Thrown(TRUE, msgSyntaxError),
      Thrown(TRUE, msgNoSuchColumn),
      Thrown(FALSE, msgBoom) }

\* the catch block of executeQuery
ExecuteCatch(error) ==
    IF error.isError
    THEN IF IncludesStatementTimeout(error.message)
         THEN Thrown(TRUE, MsgTimedOut)
         ELSE Thrown(TRUE, MsgExecutionError(error.message))
    ELSE error

\* The texts the calls are made with: concatenations of at most MaxFrags
\* fragments, the first taken from Fragments or HeadFragments, the others from
\* Fragments.
Fragments ==
    {<<" ">>,
     <<";">>,
     <<"S","E","L","E","C","T"," ","x">>,
     <<"i","n","s","e","r","t">>,
     <<"d","r","o","p">>,
     <<"E","x","e","c">>,
     <<" ","L","i","m","i","t","\f">>,
     <<"5">>,
     <<"A","L","L">>,
     <<"$","1">>}
HeadFragments ==
    {<<"w","i","t","h"," ","y">>,
     <<"U","P","D","A","T","E">>,
     <<"d","e","l","e","t","e">>,
     <<"t","r","u","n","c","a","t","e">>,
     <<"a","l","t","e","r">>,
     <<"c","r","e","a","t","e">>,
     <<"g","r","a","n","t">>,
     <<"r","e","v","o","k","e">>,
     <<"r","e","v","o","U+212A","e">>,
     <<"e","x","e","c","u","t","e">>,
     <<"s","e","l","e","c","t"," ","1",";","U+0131","n","s","e","r","t"," ","x">>,
     <<"S","E","L","E","C","T"," ","'","l","i","m","i","t"," ","5","'",
       " ","F","R","O","M"," ","t">>}

RECURSIVE Flatten(_)
Flatten(fs) == IF fs = <<>> THEN <<>> ELSE Head(fs) \o Flatten(Tail(fs))

FragmentTexts(n) == { Flatten(fs) : fs \in UNION { [1..k -> Fragments] : k \in 0..n } }

InputTexts ==
    FragmentTexts(MaxFrags)
        \cup { h \o t : h \in HeadFragments, t \in FragmentTexts(MaxFrags - 1) }

\* a call that goes on whatever the validation said
RejectsNever(validation) == FALSE

\* `if (!validation.valid) throw new Error(validation.error)`
Rejects(validation) == ~validation.valid

\* executeQuery up to its await: validation, the LIMIT rewrite, pool.query
ExecuteQueryBegin(sql) ==
    /\ exKind' = "execute"
    /\ exValidation' = validateQuery(sql)
    /\ IF Rejects(exValidation')
       THEN /\ exIssued' = <<>>
            /\ exResult' = Thrown(TRUE, exValidation'.error)
            /\ exPc' = "done"
       ELSE /\ exIssued' = <<SafeSql(sql)>>
            /\ exResult' = NoResult
            /\ exPc' = "awaitDb"

\* executeQuery(sql), called on the input text
ExecuteQueryCall(sql) ==
    /\ exPc = "idle"
    /\ sql = exSql
    /\ ExecuteQueryBegin(sql)
    /\ UNCHANGED <<exSql, varsGen, varsSchema, varsPure, varsOther, varsPost>>

\* executeQuery after its await: the result, or the catch block
ExecuteQueryReturn(outcome) ==
    /\ exPc = "awaitDb"
    /\ exKind = "execute"
    /\ exResult' = IF outcome.kind = "rows" THEN Rows ELSE ExecuteCatch(outcome)
    /\ exPc' = "done"
    /\ UNCHANGED <<exSql, exKind, exValidation, exIssued>>
    /\ UNCHANGED <<varsGen, varsSchema, varsPure, varsOther, varsPost>>

\* explainQuery up to its await
ExplainQueryCall(sql) ==
    /\ exPc = "idle"
    /\ sql = exSql
    /\ exKind' = "explain"
    /\ exValidation' = validateQuery(sql)
    /\ IF Rejects(exValidation')
       THEN /\ exIssued' = <<>>
            /\ exResult' = Thrown(TRUE, exValidation'.error)
            /\ exPc' = "done"
       ELSE /\ exIssued' = <<ExplainSql(sql)>>
            /\ exResult' = NoResult
            /\ exPc' = "awaitDb"
    /\ UNCHANGED <<exSql, varsGen, varsSchema, varsPure, varsOther, varsPost>>

\* explainQuery after its await: the plan lines, or the rejection as it is
ExplainQueryReturn(outcome) ==
    /\ exPc = "awaitDb"
    /\ exKind = "explain"
    /\ exResult' = outcome
    /\ exPc' = "done"
    /\ UNCHANGED <<exSql, exKind, exValidation, exIssued>>
    /\ UNCHANGED <<varsGen, varsSchema, varsPure, varsOther, varsPost>>

InitExecVars ==
    /\ exSql \in InputTexts
    /\ exKind = "none"
    /\ exPc = "idle"
    /\ exValidation = [valid |-> FALSE, error |-> <<>>]
    /\ exIssued = <<>>
    /\ exResult = NoResult

(***************************************************************************)
(* lib/llm: the provider clients (gemini, claude).                         *)
(***************************************************************************)
\* a value is "undefined" when the variable or argument is absent
Truthy(v) == v # "undefined" /\ v # ""

GenNone ==
    [kind |-> "none", isError |-> FALSE, message |-> <<>>,
     provider |-> "none", model |-> "none", text |-> "none"]
\* a SQLGenerationResponse; text stands for the reply that was parsed into it
GenResponse(provider, model, text) ==
    [kind |-> "response", isError |-> FALSE, message |-> <<>>,
     provider |-> provider, model |-> model, text |-> text]
\* a rejection: an Error with a message, or any other thrown value
GenThrown(isError, message) ==
    [kind |-> "throw", isError |-> isError, message |-> message,
     provider |-> "none", model |-> "none", text |-> "none"]
InFlight ==
    [kind |-> "inflight", isError |-> FALSE, message |-> <<>>,
     provider |-> "none", model |-> "none", text |-> "none"]

\* getClient of gemini.ts / claude.ts: does it throw, given the memo and the key
GetClientThrows(fn) == ~clients[fn] /\ ~envKeys[fn]
MsgKeyNotSet(fn) ==
    IF fn = "gemini"
    THEN <<"GEMINI_API_KEY", "environment", "variable", "is", "not", "set">>
    ELSE <<"CLAUDE_API_KEY", "environment", "variable", "is", "not", "set">>
\* a getClient that does not keep the client it constructs
ClientsNeverMemoized(fn) == clients

\* getClient: the memo after the call
ClientsAfterGetClient(fn) ==
    IF GetClientThrows(fn) THEN clients ELSE [clients EXCEPT ![fn] = TRUE]
\* generateSQLWith<fn> up to its await: rejected by getClient, or in flight
ProviderCallStart(fn) ==
    IF GetClientThrows(fn) THEN GenThrown(TRUE, MsgKeyNotSet(fn)) ELSE InFlight

\* what the transport of a provider can settle to: a reply text, a reply
\* without text content (claude), or a rejection with some value
TransportOutcomes(fn) ==
    { [kind |-> "reply", isError |-> FALSE, message |-> <<>>, text |-> "reply1"],
      [kind |-> "reply", isError |-> FALSE, message |-> <<>>, text |-> "reply2"],
      [kind |-> "reply", isError |-> FALSE, message |-> <<>>, text |-> "reply3"],
      [kind |-> "throw", isError |-> TRUE, message |-> <<"overloaded">>, text |-> "none"],
      [kind |-> "throw", isError |-> FALSE, message |-> <<"boom">>, text |-> "none"] }
    \cup (IF fn = "claude"
          THEN {[kind |-> "notext", isError |-> FALSE, message |-> <<>>, text |-> "none"]}
          ELSE {})
AllTransportOutcomes == TransportOutcomes("gemini") \cup TransportOutcomes("claude")

\* a response that names the wrong provider
ClaudeResponseMisstamped(text) == GenResponse("gemini", "claude-sonnet-4-20250514", text)

\* the object generateSQLWithClaude returns
ClaudeResponse(text) == GenResponse("claude", "claude-sonnet-4-20250514", text)
\* the object generateSQLWithGemini returns
GeminiResponse(text) == GenResponse("gemini", "gemini-2.0-flash", text)

\* the catch block of generateSQLWithClaude / generateSQLWithGemini
ProviderCatch(fn, error) ==
    IF error.isError
    THEN GenThrown(TRUE, (IF fn = "gemini" THEN <<"Gemini", "API", "error:">>
                                           ELSE <<"Claude", "API", "error:">>)
                             \o error.message)
    ELSE GenThrown(FALSE, error.message)

\* generateSQLWith<fn> after its await
ProviderCallEnd(fn, outcome) ==
    IF outcome.kind = "reply"
    THEN IF fn = "gemini" THEN GeminiResponse(outcome.text) ELSE ClaudeResponse(outcome.text)
    ELSE IF outcome.kind = "notext"
    THEN ProviderCatch(fn, GenThrown(TRUE, <<"No", "text", "content", "in", "Claude", "response">>))
    ELSE ProviderCatch(fn, outcome)

(***************************************************************************)
(* lib/llm/sql-generator: generateSQL.                                     *)
(***************************************************************************)
\* const DEFAULT_PROVIDER = process.env.LLM_PROVIDER || 'gemini'
DEFAULT_PROVIDER == IF Truthy(envProvider) THEN envProvider ELSE "gemini"

\* const primary = preferredProvider || DEFAULT_PROVIDER
SelectPrimary(preferredProvider) ==
    IF Truthy(preferredProvider) THEN preferredProvider ELSE DEFAULT_PROVIDER
\* const fallback = primary === 'gemini' ? 'claude' : 'gemini'
SelectFallback(primary) == IF primary = "gemini" THEN "claude" ELSE "gemini"
\* `if (p === 'gemini') generateSQLWithGemini(..) else generateSQLWithClaude(..)`
Dispatch(provider) == IF provider = "gemini" THEN "gemini" ELSE "claude"

\* an orchestrator that goes on to the fallback whatever the primary did
SucceededNever(settled) == FALSE

\* `return await ...`: the awaited call fulfilled, so generateSQL returns
Succeeded(settled) == settled.kind = "response"

\* `e instanceof Error ? e.message : 'Unknown error'`
MessageOf(error) == IF error.isError THEN error.message ELSE <<"Unknown", "error">>

\* the message of the Error thrown when both providers failed
CompositeMessage(primary, primaryError, fallback, fallbackError) ==
    <<"Failed", "to", "generate", "SQL.", "Primary", "(", primary, "):">>
        \o MessageOf(primaryError)
        \o <<".", "Fallback", "(", fallback, "):">>
        \o MessageOf(fallbackError)

CallEntry(slot, fn) == [slot |-> slot, fn |-> fn, settled |-> GenNone]
SettleLast(calls, settled) == [calls EXCEPT ![Len(calls)].settled = settled]

\* generateSQL up to its first await: the selection and the primary call
GenerateSQLBegin(preferredProvider) ==
    /\ genPref' = preferredProvider
    /\ genPrimary' = SelectPrimary(preferredProvider)
    /\ genFallback' = SelectFallback(genPrimary')
    /\ genCalls' = <<CallEntry("primary", Dispatch(genPrimary'))>>
    /\ genPending' = ProviderCallStart(Dispatch(genPrimary'))
    /\ clients' = ClientsAfterGetClient(Dispatch(genPrimary'))
    /\ genPrimaryError' = GenNone
    /\ genResult' = GenNone
    /\ genPc' = "awaitPrimary"

\* generateSQL(request, preferredProvider), called when no call is running
GenerateSQLCall(preferredProvider) ==
    /\ genPc \in {"idle", "done"}
    /\ GenerateSQLBegin(preferredProvider)
    /\ UNCHANGED <<envProvider, envKeys, varsExec, varsSchema, varsPure, varsOther, varsPost>>

\* generateSQL after `await` of the primary call: return its response, or
\* catch, warn and call the fallback
PrimaryAwaited(settled) ==
    /\ IF Succeeded(settled)
       THEN /\ genResult' = settled
            /\ genCalls' = SettleLast(genCalls, settled)
            /\ genPc' = "done"
            /\ UNCHANGED <<genPending, genPrimaryError, clients>>
       ELSE /\ genPrimaryError' = settled
            /\ genCalls' = Append(SettleLast(genCalls, settled),
                                  CallEntry("fallback", Dispatch(genFallback)))
            /\ genPending' = ProviderCallStart(Dispatch(genFallback))
            /\ clients' = ClientsAfterGetClient(Dispatch(genFallback))
            /\ genPc' = "awaitFallback"
            /\ UNCHANGED genResult
    /\ UNCHANGED <<envProvider, envKeys, genPref, genPrimary, genFallback>>
    /\ UNCHANGED <<varsExec, varsSchema, varsPure, varsOther, varsPost>>

\* the transport call of the primary provider settles
PrimarySettles(outcome) ==
    /\ genPc = "awaitPrimary"
    /\ genPending.kind = "inflight"
    /\ outcome \in TransportOutcomes(genCalls[1].fn)
    /\ PrimaryAwaited(ProviderCallEnd(genCalls[1].fn, outcome))

\* getClient threw in the primary call, before anything was sent: the
\* promise is rejected already and generateSQL goes on by itself
PrimaryRejected ==
    /\ genPc = "awaitPrimary"
    /\ genPending.kind = "throw"
    /\ PrimaryAwaited(genPending)

\* generateSQL after `await` of the fallback call: return its response, or
\* throw the composite Error
FallbackAwaited(settled) ==
    /\ genCalls' = SettleLast(genCalls, settled)
    /\ genResult' =
          IF settled.kind = "response"
          THEN settled
          ELSE GenThrown(TRUE, CompositeMessage(genPrimary, genPrimaryError,
                                                genFallback, settled))
    /\ genPc' = "done"
    /\ UNCHANGED <<envProvider, envKeys, clients, genPref, genPrimary, genFallback,
                   genPending, genPrimaryError>>
    /\ UNCHANGED <<varsExec, varsSchema, varsPure, varsOther, varsPost>>

\* the transport call of the fallback provider settles
FallbackSettles(outcome) ==
    /\ genPc = "awaitFallback"
    /\ genPending.kind = "inflight"
    /\ outcome \in TransportOutcomes(genCalls[2].fn)
    /\ FallbackAwaited(ProviderCallEnd(genCalls[2].fn, outcome))

\* getClient threw in the fallback call: generateSQL goes on by itself and
\* throws the composite Error
FallbackRejected ==
    /\ genPc = "awaitFallback"
    /\ genPending.kind = "throw"
    /\ FallbackAwaited(genPending)

\* the values LLM_PROVIDER and the provider argument are given
EnvProviderValues == {"undefined", "", "gemini", "claude", "openai"}
PreferredValues == {"undefined", "", "gemini", "claude", "openai"}

(***************************************************************************)
(* lib/db/schema: catalog introspection and the schema cache.              *)
(***************************************************************************)
\* at most MaxClock schemas are stamped and stored in one behaviour
MaxClock == 3
\* the callers that may have an introspection in flight at once
Callers == {"first", "second"}

\* SQL NULL in a catalog row
NullValue == "<null>"

ColumnRow(name, dataType, udtName, nullable, default, comment) ==
    [column_name |-> name, data_type |-> dataType, udt_name |-> udtName,
     is_nullable |-> nullable, column_default |-> default,
     column_comment |-> comment]

FkRow(column, table, refColumn) ==
    [column_name |-> column, referenced_table |-> table,
     referenced_column |-> refColumn]

\* one base table of the catalog: its row of tablesQuery and the rows that
\* columnsQuery, pkQuery and fkQuery give for it
CatalogTable(name, comment, columns, pk, fk) ==
    [table_name |-> name, table_schema |-> "public", table_comment |-> comment,
     columns |-> columns, pk |-> pk, fk |-> fk]

CustomersTable ==
    CatalogTable("customers", "people who buy",
        << ColumnRow("id", "integer", "int4", "NO", "nextval", NullValue),
           ColumnRow("email", "character varying", NullValue, "YES", NullValue, "login") >>,
        << [column_name |-> "id"] >>,
        << >>)

OrdersTable ==
    CatalogTable("orders", NullValue,
        << ColumnRow("id", "integer", "int4", "NO", NullValue, NullValue),
           ColumnRow("customer_id", "integer", "int4", "NO", NullValue, NullValue) >>,
        << [column_name |-> "id"] >>,
        << FkRow("customer_id", "customers", "id") >>)

\* the catalogs the database may hold, tables ordered by name
Catalogs == { << >>, << OrdersTable >>, << CustomersTable, OrdersTable >> }

\* `let schemaCache: DatabaseSchema | null = null`
NoSchema == [present |-> FALSE, tables |-> << >>, timestamp |-> 0]

\* `{ tables, timestamp: new Date() }`
DatabaseSchema(tables, timestamp) ==
    [present |-> TRUE, tables |-> tables, timestamp |-> timestamp]

\* `primaryKeys.includes(name)`
Includes(seq, v) == \E i \in 1..Len(seq) : seq[i] = v

\* `pkResult.rows.map(row => row.column_name)`
PrimaryKeysOf(pkRows) == [i \in 1..Len(pkRows) |-> pkRows[i].column_name]

\* `x || y` for two texts of a catalog row: SQL NULL and '' are falsy
OrText(x, y) == IF x \in {"", NullValue} THEN y ELSE x

\* one element of `columns`
ColumnInfo(col, primaryKeys) ==
    [name |-> col.column_name,
     type |-> OrText(col.udt_name, col.data_type),
     isNullable |-> (col.is_nullable = "YES"),
     isPrimary |-> Includes(primaryKeys, col.column_name),
     defaultValue |-> col.column_default,
     comment |-> col.column_comment]

\* one element of `foreignKeys`
ForeignKey(row) ==
    [columnName |-> row.column_name, referencedTable |-> row.referenced_table,
     referencedColumn |-> row.referenced_column]

\* the object pushed on `tables` for one table row
TableSchema(tableRow, columnRows, primaryKeys, fkRows) ==
    [name |-> tableRow.table_name,
     schema |-> tableRow.table_schema,
     columns |-> [i \in 1..Len(columnRows) |-> ColumnInfo(columnRows[i], primaryKeys)],
     primaryKeys |-> primaryKeys,
     foreignKeys |-> [i \in 1..Len(fkRows) |-> ForeignKey(fkRows[i])],
     comment |-> tableRow.table_comment]

\* the rejection of a catalog query
CatalogError == <<"connection", "terminated">>

\* a caller that has not called introspectSchema; stampsBefore and cleared
\* are history kept until the call returns: the schemas stored before the
\* call began, and whether the cache was cleared while the call's catalog
\* queries were running
IdleCall ==
    [pc |-> "idle", via |-> "none", force |-> FALSE, hit |-> FALSE,
     cacheBefore |-> NoSchema, cacheAfter |-> NoSchema,
     rows |-> << >>, idx |-> 0, tables |-> << >>, columns |-> << >>,
     primaryKeys |-> << >>, queries |-> 0, result |-> NoSchema, error |-> << >>,
     stampsBefore |-> 0, cleared |-> FALSE]

\* a cache that answers only when it holds tables
CacheHitNeedsTables(cache, forceRefresh) ==
    cache.present /\ Len(cache.tables) > 0 /\ ~forceRefresh

\* `if (schemaCache && !forceRefresh)`
CacheHit(cache, forceRefresh) == cache.present /\ ~forceRefresh

\* introspectSchema up to its first await, entered with the cache as it is:
\* the cached schema at once, or the tables query handed to the pool
BeginCall(via, forceRefresh, cache) ==
    IF CacheHit(cache, forceRefresh)
    THEN [IdleCall EXCEPT !.pc = "done", !.via = via, !.force = forceRefresh,
                          !.hit = TRUE, !.cacheBefore = cache,
                          !.cacheAfter = cache, !.result = cache,
                          !.stampsBefore = clock]
    ELSE [IdleCall EXCEPT !.pc = "awaitTables", !.via = via,
                          !.force = forceRefresh, !.cacheBefore = cache,
                          !.queries = 1, !.stampsBefore = clock]

Awaiting == {"awaitTables", "awaitColumns", "awaitPk", "awaitFk"}

\* the calls whose catalog queries are still running
Running == {c \in Callers : icall[c].pc \in Awaiting}

\* a call that will stamp a schema starts only while stamps are left
MayStart(c, forceRefresh, cache) ==
    /\ icall[c].pc \notin Awaiting
    /\ CacheHit(cache, forceRefresh) \/ clock + Cardinality(Running) < MaxClock

\* a rejected catalog query: introspectSchema has no catch, its locals are gone
FailedCall(call) ==
    [call EXCEPT !.pc = "failed", !.error = CatalogError, !.rows = << >>,
                 !.idx = 0, !.tables = << >>, !.columns = << >>,
                 !.primaryKeys = << >>, !.cleared = FALSE]

\* an assignment that leaves the old cache in place
StoredSchemaStale(schema) == schemaCache

\* `schemaCache = { tables, timestamp: new Date() }`
StoredSchema(schema) == schema

\* the end of a successful introspection: store the schema, return the cache
StoreAndReturn(c, call, tables) ==
    /\ schemaCache' = StoredSchema(DatabaseSchema(tables, clock + 1))
    /\ clock' = clock + 1
    /\ sinceClear' = TRUE
    /\ icall' = [icall EXCEPT ![c] =
                   [call EXCEPT !.pc = "done", !.tables = tables,
                                !.columns = << >>, !.primaryKeys = << >>,
                                !.result = schemaCache', !.cleared = FALSE,
                                !.stampsBefore = 0,
                                !.cacheAfter = schemaCache']]

\* a cache that survives clearSchemaCache
ClearedCacheKept == schemaCache

\* `schemaCache = null`
ClearedCache == NoSchema

\* the calls after a clear of the cache: those in flight have seen a clear
ClearedDuring(calls) ==
    [c \in Callers |->
        IF calls[c].pc \in Awaiting THEN [calls[c] EXCEPT !.cleared = TRUE]
        ELSE calls[c]]

\* GET /api/schema has sent no response
NoGetResponse ==
    [status |-> 0, success |-> FALSE, error |-> << >>,
     tables |-> << >>, tableCount |-> 0, timestamp |-> 0]

\* introspectSchema(forceRefresh), called directly
IntrospectSchemaCall(c, forceRefresh) ==
    /\ MayStart(c, forceRefresh, schemaCache)
    /\ icall' = [icall EXCEPT ![c] = BeginCall("direct", forceRefresh, schemaCache)]
    /\ UNCHANGED <<catalog, schemaCache, clock, sinceClear, gotSchema>>
    /\ UNCHANGED <<varsExec, varsGen, varsPure, varsOther, varsPost>>

\* GET /api/schema up to its await: clearSchemaCache when refresh=true, then
\* introspectSchema(refresh)
SchemaGetCall(c, refresh) ==
    LET cache == IF refresh THEN ClearedCache ELSE schemaCache
    IN  /\ MayStart(c, refresh, cache)
        /\ schemaCache' = cache
        /\ sinceClear' = IF refresh THEN FALSE ELSE sinceClear
        /\ icall' = [(IF refresh THEN ClearedDuring(icall) ELSE icall)
                        EXCEPT ![c] = BeginCall("get", refresh, cache)]
        /\ getResponse' = [getResponse EXCEPT ![c] = NoGetResponse]
        /\ UNCHANGED <<catalog, clock, gotSchema>>
        /\ UNCHANGED <<connPc, connResponse, pcall, fmtSchema, fmtText>>
        /\ UNCHANGED <<varsExec, varsGen, varsPure, varsPost>>

\* `await pool.query(tablesQuery)` settles
TablesReply(c, ok) ==
    /\ icall[c].pc = "awaitTables"
    /\ IF ~ok
       THEN /\ icall' = [icall EXCEPT ![c] = FailedCall(@)]
            /\ UNCHANGED <<schemaCache, clock, sinceClear>>
       ELSE IF Len(catalog) = 0
       THEN StoreAndReturn(c, icall[c], << >>)
       ELSE /\ icall' = [icall EXCEPT ![c] =
                           [@ EXCEPT !.pc = "awaitColumns", !.rows = catalog,
                                     !.idx = 1, !.queries = @ + 1]]
            /\ UNCHANGED <<schemaCache, clock, sinceClear>>
    /\ UNCHANGED <<catalog, gotSchema>>
    /\ UNCHANGED <<varsExec, varsGen, varsPure, varsOther, varsPost>>

\* `await pool.query(columnsQuery, ...)` settles
ColumnsReply(c, ok) ==
    /\ icall[c].pc = "awaitColumns"
    /\ icall' = [icall EXCEPT ![c] =
                   IF ok
                   THEN [@ EXCEPT !.pc = "awaitPk",
                                  !.columns = icall[c].rows[icall[c].idx].columns,
                                  !.queries = @ + 1]
                   ELSE FailedCall(@)]
    /\ UNCHANGED <<catalog, schemaCache, clock, sinceClear, gotSchema>>
    /\ UNCHANGED <<varsExec, varsGen, varsPure, varsOther, varsPost>>

\* `await pool.query(pkQuery, ...)` settles
PkReply(c, ok) ==
    /\ icall[c].pc = "awaitPk"
    /\ icall' = [icall EXCEPT ![c] =
                   IF ok
                   THEN [@ EXCEPT !.pc = "awaitFk",
                                  !.primaryKeys =
                                      PrimaryKeysOf(icall[c].rows[icall[c].idx].pk),
                                  !.queries = @ + 1]
                   ELSE FailedCall(@)]
    /\ UNCHANGED <<catalog, schemaCache, clock, sinceClear, gotSchema>>
    /\ UNCHANGED <<varsExec, varsGen, varsPure, varsOther, varsPost>>

\* a rejected foreign-key query that stores the tables assembled so far
FkReplyPublishesOnFailure(c, ok) ==
    /\ icall[c].pc = "awaitFk"
    /\ icall' = [icall EXCEPT ![c] = FailedCall(@)]
    /\ schemaCache' = DatabaseSchema(icall[c].tables, clock)
    /\ sinceClear' = TRUE
    /\ UNCHANGED <<catalog, clock, gotSchema>>
    /\ UNCHANGED <<varsExec, varsGen, varsPure, varsOther, varsPost>>

\* `await pool.query(fkQuery, ...)` settles: the table is pushed, then the
\* next table's columns are asked for, or the schema is stored and returned
FkReply(c, ok) ==
    /\ icall[c].pc = "awaitFk"
    /\ LET call == icall[c]
           row == call.rows[call.idx]
           tables == Append(call.tables,
                            TableSchema(row, call.columns, call.primaryKeys, row.fk))
       IN  IF ~ok
           THEN /\ icall' = [icall EXCEPT ![c] = FailedCall(@)]
                /\ UNCHANGED <<schemaCache, clock, sinceClear>>
           ELSE IF call.idx = Len(call.rows)
           THEN StoreAndReturn(c, call, tables)
           ELSE /\ icall' = [icall EXCEPT ![c] =
                               [@ EXCEPT !.pc = "awaitColumns", !.tables = tables,
                                         !.idx = @ + 1, !.columns = << >>,
                                         !.primaryKeys = << >>, !.queries = @ + 1]]
                /\ UNCHANGED <<schemaCache, clock, sinceClear>>
    /\ UNCHANGED <<catalog, gotSchema>>
    /\ UNCHANGED <<varsExec, varsGen, varsPure, varsOther, varsPost>>

\* clearSchemaCache()
ClearSchemaCache ==
    /\ schemaCache' = ClearedCache
    /\ sinceClear' = FALSE
    /\ icall' = ClearedDuring(icall)
    /\ UNCHANGED <<catalog, clock, gotSchema>>
    /\ UNCHANGED <<varsExec, varsGen, varsPure, varsOther, varsPost>>

\* what getCachedSchema returned
NotGot ==
    [called |-> FALSE, value |-> NoSchema, sinceClear |-> FALSE, stamps |-> 0,
     queries |-> 0]

\* the catalog queries issued so far by the calls of the callers
RECURSIVE QueriesOf(_, _)
QueriesOf(calls, callers) ==
    IF callers = {} THEN 0
    ELSE LET c == CHOOSE x \in callers : TRUE
         IN  calls[c].queries + QueriesOf(calls, callers \ {c})

\* getCachedSchema(): `return schemaCache`
GetCachedSchema ==
    /\ UNCHANGED <<catalog, schemaCache, clock, icall, sinceClear>>
    /\ gotSchema' = [called |-> TRUE, value |-> schemaCache,
                     sinceClear |-> sinceClear, stamps |-> clock,
                     queries |-> QueriesOf(icall', Callers)
                                   - QueriesOf(icall, Callers)]
    /\ UNCHANGED <<varsExec, varsGen, varsPure, varsOther, varsPost>>

\* the schema variables while the cache is not in use
SchemaAtRest ==
    /\ catalog = << >>
    /\ schemaCache = NoSchema
    /\ clock = 0
    /\ icall = [c \in Callers |-> IdleCall]
    /\ sinceClear = FALSE
    /\ gotSchema = NotGot

(***************************************************************************)
(* lib/llm/prompts: parseLLMResponse.                                      *)
(*                                                                         *)
(* A JavaScript value is a record: its type t, its text s (the characters  *)
(* of a string, the literal of a number or boolean) and its elements       *)
(* (the values of an array, the key/value members of an object).           *)
(***************************************************************************)
Undefined == [t |-> "undefined", s |-> << >>, elems |-> << >>]
JsNull == [t |-> "null", s |-> << >>, elems |-> << >>]
JsBoolean(text) == [t |-> "bool", s |-> text, elems |-> << >>]
JsNumber(text) == [t |-> "num", s |-> text, elems |-> << >>]
JsString(text) == [t |-> "str", s |-> text, elems |-> << >>]
JsArray(values) == [t |-> "arr", s |-> << >>, elems |-> values]
JsObject(members) == [t |-> "obj", s |-> << >>, elems |-> members]

\* the character ` (U+0060), which a string of this language cannot hold

litTrue == <<"t","r","u","e">>
litFalse == <<"f","a","l","s","e">>
litNull == <<"n","u","l","l">>

\* JSON.parse, read character by character: white space, the three literals,
\* numbers, strings with their escapes, arrays and objects
ParseFail == [ok |-> FALSE, pos |-> 0, val |-> Undefined]
ParseOk(pos, val) == [ok |-> TRUE, pos |-> pos, val |-> val]

RECURSIVE SkipWs(_, _)
SkipWs(s, i) == IF i <= Len(s) /\ IsJsonSpace(s[i]) THEN SkipWs(s, i + 1) ELSE i

RECURSIVE DigitsEnd(_, _)
DigitsEnd(s, i) == IF i <= Len(s) /\ IsDigit(s[i]) THEN DigitsEnd(s, i + 1) ELSE i

Least(S) == CHOOSE x \in S : \A y \in S : x <= y
Greatest(S) == CHOOSE x \in S : \A y \in S : x >= y

\* the hexadecimal digits and their values
HexSet == {HexChars[i] : i \in 1..16} \cup {"a","b","c","d","e","f"}
HexOf == [c \in HexSet |-> (CHOOSE i \in 1..16 : HexChars[i] = UpperChar(c)) - 1]

\* the characters below U+0020, which a JSON string may not hold unescaped
ControlChars == {CharOfCode(n) : n \in 0..31}

\* the character that each one-letter escape stands for
EscapeOf ==
    [c \in {"\"", "\\", "/", "b", "f", "n", "r", "t"} |->
        CASE c = "b" -> CharOfCode(8)
          [] c = "f" -> "\f"
          [] c = "n" -> "\n"
          [] c = "r" -> "\r"
          [] c = "t" -> "\t"
          [] OTHER -> c]

\* the code point written by the four hexadecimal digits s[i..i+3]
CodeOfHex(s, i) ==
    4096 * HexOf[s[i]] + 256 * HexOf[s[i + 1]] + 16 * HexOf[s[i + 2]]
        + HexOf[s[i + 3]]

\* the rest of a string from s[i] on, after the characters of acc
RECURSIVE ParseStringFrom(_, _, _)
ParseStringFrom(s, i, acc) ==
    IF i > Len(s) THEN ParseFail
    ELSE IF s[i] = "\"" THEN ParseOk(i, JsString(acc))
    ELSE IF s[i] \in ControlChars THEN ParseFail
    ELSE IF s[i] # "\\" THEN ParseStringFrom(s, i + 1, Append(acc, s[i]))
    ELSE IF i + 1 > Len(s) THEN ParseFail
    ELSE IF s[i + 1] = "u"
    THEN IF i + 5 <= Len(s) /\ \A k \in 2..5 : s[i + k] \in HexSet
         THEN ParseStringFrom(s, i + 6,
                              Append(acc, CharOfCode(CodeOfHex(s, i + 2))))
         ELSE ParseFail
    ELSE IF s[i + 1] \in DOMAIN EscapeOf
    THEN ParseStringFrom(s, i + 2, Append(acc, EscapeOf[s[i + 1]]))
    ELSE ParseFail

\* s[i] is the opening quote
ParseString(s, i) == ParseStringFrom(s, i + 1, << >>)

\* the end of the integer part that starts at s[a]: a itself when there is none
NumberInt(s, a) ==
    IF a <= Len(s) /\ s[a] = "0" THEN a + 1 ELSE DigitsEnd(s, a)

\* the end of the fraction that may start at s[p]: 0 when it holds no digit
NumberFrac(s, p) ==
    IF p <= Len(s) /\ s[p] = "."
    THEN IF DigitsEnd(s, p + 1) = p + 1 THEN 0 ELSE DigitsEnd(s, p + 1)
    ELSE p

\* the end of the exponent that may start at s[p]: 0 when it holds no digit
NumberExp(s, p) ==
    IF p <= Len(s) /\ s[p] \in {"e", "E"}
    THEN LET from == IF p + 1 <= Len(s) /\ s[p + 1] \in {"+", "-"}
                     THEN p + 2 ELSE p + 1
         IN  IF DigitsEnd(s, from) = from THEN 0 ELSE DigitsEnd(s, from)
    ELSE p

\* the position after the number that starts at s[i], 0 when it is none
NumberEnd(s, i) ==
    LET a == IF s[i] = "-" THEN i + 1 ELSE i
    IN  IF NumberInt(s, a) = a THEN 0
        ELSE IF NumberFrac(s, NumberInt(s, a)) = 0 THEN 0
        ELSE NumberExp(s, NumberFrac(s, NumberInt(s, a)))

\* s[i] is a digit or the minus sign
ParseNumber(s, i) ==
    LET end == NumberEnd(s, i)
    IN  IF end = 0 THEN ParseFail
        ELSE ParseOk(end - 1, JsNumber(SubSeq(s, i, end - 1)))

ParseLiteral(s, i, word, val) ==
    IF i + Len(word) - 1 <= Len(s) /\ SubSeq(s, i, i + Len(word) - 1) = word
    THEN ParseOk(i + Len(word) - 1, val)
    ELSE ParseFail

\* the element of a set of one element; `Only({ e(x) : x \in {v} })` is e
\* of v, with v worked out once
Only(S) == CHOOSE v \in S : TRUE

\* ParseValue reads one value from s[i] on, white space around it included;
\* every reader answers the position of the last character it read, and
\* ParseValue the position after the white space that follows the value
RECURSIVE ParseValue(_, _)
RECURSIVE ParseElements(_, _, _)
RECURSIVE ParseMembers(_, _, _)

\* the elements of an array, from s[i] on, after the elements of acc
ParseElements(s, i, acc) ==
    Only({ IF ~r.ok \/ r.pos > Len(s) THEN ParseFail
           ELSE IF s[r.pos] = "," THEN ParseElements(s, r.pos + 1, Append(acc, r.val))
           ELSE IF s[r.pos] = "]" THEN ParseOk(r.pos, JsArray(Append(acc, r.val)))
           ELSE ParseFail
           : r \in {ParseValue(s, i)} })

\* the value of a member whose key has been read, and the members after it
ParseMemberValue(s, key, acc) ==
    Only({ IF ~r.ok \/ r.pos > Len(s) THEN ParseFail
           ELSE IF s[r.pos] = ","
           THEN ParseMembers(s, r.pos + 1, Append(acc, [k |-> key.val.s, v |-> r.val]))
           ELSE IF s[r.pos] = "}"
           THEN ParseOk(r.pos, JsObject(Append(acc, [k |-> key.val.s, v |-> r.val])))
           ELSE ParseFail
           : r \in {ParseValue(s, SkipWs(s, key.pos + 1) + 1)} })

\* the members of an object, from s[i] on, after the members of acc
ParseMembers(s, i, acc) ==
    Only({ IF j > Len(s) \/ s[j] # "\"" THEN ParseFail
           ELSE Only({ IF ~key.ok \/ SkipWs(s, key.pos + 1) > Len(s)
                          \/ s[SkipWs(s, key.pos + 1)] # ":"
                       THEN ParseFail
                       ELSE ParseMemberValue(s, key, acc)
                       : key \in {ParseString(s, j)} })
           : j \in {SkipWs(s, i)} })

\* s[i] is the opening bracket
ParseArray(s, i) ==
    IF SkipWs(s, i + 1) <= Len(s) /\ s[SkipWs(s, i + 1)] = "]"
    THEN ParseOk(SkipWs(s, i + 1), JsArray(<< >>))
    ELSE ParseElements(s, i + 1, << >>)

\* s[i] is the opening brace
ParseObject(s, i) ==
    IF SkipWs(s, i + 1) <= Len(s) /\ s[SkipWs(s, i + 1)] = "}"
    THEN ParseOk(SkipWs(s, i + 1), JsObject(<< >>))
    ELSE ParseMembers(s, i + 1, << >>)

\* the value that starts at s[j], which is no white space
ParseValueAt(s, j) ==
    CASE s[j] = "{" -> ParseObject(s, j)
      [] s[j] = "[" -> ParseArray(s, j)
      [] s[j] = "\"" -> ParseString(s, j)
      [] s[j] = "-" \/ IsDigit(s[j]) -> ParseNumber(s, j)
      [] s[j] = "t" -> ParseLiteral(s, j, litTrue, JsBoolean(litTrue))
      [] s[j] = "f" -> ParseLiteral(s, j, litFalse, JsBoolean(litFalse))
      [] s[j] = "n" -> ParseLiteral(s, j, litNull, JsNull)
      [] OTHER -> ParseFail

ParseValue(s, i) ==
    Only({ IF j > Len(s) THEN ParseFail
           ELSE Only({ IF r.ok THEN ParseOk(SkipWs(s, r.pos + 1), r.val) ELSE ParseFail
                       : r \in {ParseValueAt(s, j)} })
           : j \in {SkipWs(s, i)} })

\* JSON.parse(text): the value, or a SyntaxError
JsonParse(text) ==
    Only({ IF r.ok /\ r.pos = Len(text) + 1
           THEN [threw |-> FALSE, value |-> r.val]
           ELSE [threw |-> TRUE, value |-> Undefined]
           : r \in {ParseValue(text, 1)} })

\* `parsed.key` on a value that is neither null nor undefined: the member
\* written last under that key, undefined on anything that is not an object
GetProperty(val, key) ==
    LET at == IF val.t = "obj"
              THEN {i \in 1..Len(val.elems) : val.elems[i].k = key} ELSE {}
    IN  IF at = {} THEN Undefined ELSE val.elems[Greatest(at)].v

\* a sequence of digits without its leading zeros
RECURSIVE StripZeros(_)
StripZeros(digits) ==
    IF digits # << >> /\ Head(digits) = "0" THEN StripZeros(Tail(digits)) ELSE digits

\* the digits of a natural number, none for 0
RECURSIVE DigitsOfNat(_)
DigitsOfNat(n) ==
    IF n = 0 THEN << >>
    ELSE Append(DigitsOfNat(n \div 10), HexChars[(n % 10) + 1])

\* the order of the numbers written by two sequences of digits without
\* leading zeros, of any length: -1, 0 or 1
CompareDigits(a, b) ==
    IF Len(a) # Len(b) THEN (IF Len(a) < Len(b) THEN 0 - 1 ELSE 1)
    ELSE LET differ == {k \in 1..Len(a) : a[k] # b[k]}
         IN  IF differ = {} THEN 0
             ELSE IF HexOf[a[Least(differ)]] < HexOf[b[Least(differ)]] THEN 0 - 1
             ELSE 1

\* the integer digits, the fraction digits and the exponent of a number
\* literal of JSON; the exponent is kept as written, a sign and its digits
NumberParts(text) ==
    LET a == IF text[1] = "-" THEN 2 ELSE 1
        intEnd == DigitsEnd(text, a)
        fracEnd == IF intEnd <= Len(text) /\ text[intEnd] = "."
                   THEN DigitsEnd(text, intEnd + 1) ELSE intEnd
        expFrom == IF fracEnd + 1 <= Len(text) /\ text[fracEnd + 1] \in {"+", "-"}
                   THEN fracEnd + 2 ELSE fracEnd + 1
        expDigits == IF fracEnd <= Len(text)
                     THEN StripZeros(SubSeq(text, expFrom, Len(text))) ELSE << >>
    IN  [int |-> SubSeq(text, a, intEnd - 1),
         frac |-> IF fracEnd > intEnd THEN SubSeq(text, intEnd + 1, fracEnd - 1)
                  ELSE << >>,
         expNeg |-> /\ fracEnd + 1 <= Len(text)
                    /\ text[fracEnd + 1] = "-"
                    /\ expDigits # << >>,
         expDigits |-> expDigits]

\* the order of the exponent of a number literal and the integer n
CompareExponent(parts, n) ==
    IF parts.expDigits = << >>
    THEN (IF 0 < n THEN 0 - 1 ELSE IF 0 = n THEN 0 ELSE 1)
    ELSE IF ~parts.expNeg
    THEN (IF n <= 0 THEN 1 ELSE CompareDigits(parts.expDigits, DigitsOfNat(n)))
    ELSE IF n >= 0 THEN 0 - 1
    ELSE 0 - CompareDigits(parts.expDigits, DigitsOfNat(0 - n))

\* a value of at most half the least double, 2^-1075 = 2.4703...e-324, is
\* rounded to zero (half the least double itself goes to the even
\* neighbour, 0): the digits of 2^-1075, all 752 of them, which are the
\* digits of 5^1075
UnderflowDigits ==
    <<"2","4","7","0","3","2","8","2","2","9","2","0","6","2","3","2","7","2","0","8","8","2","8","4",
      "3","9","6","4","3","4","1","1","0","6","8","6","1","8","2","5","2","9","9","0","1","3","0","7",
      "1","6","2","3","8","2","2","1","2","7","9","2","8","4","1","2","5","0","3","3","7","7","5","3",
      "6","3","5","1","0","4","3","7","5","9","3","2","6","4","9","9","1","8","1","8","0","8","1","7",
      "9","9","6","1","8","9","8","9","8","2","8","2","3","4","7","7","2","2","8","5","8","8","6","5",
      "4","6","3","3","2","8","3","5","5","1","7","7","9","6","9","8","9","8","1","9","9","3","8","7",
      "3","9","8","0","0","5","3","9","0","9","3","9","0","6","3","1","5","0","3","5","6","5","9","5",
      "1","5","5","7","0","2","2","6","3","9","2","2","9","0","8","5","8","3","9","2","4","4","9","1",
      "0","5","1","8","4","4","3","5","9","3","1","8","0","2","8","4","9","9","3","6","5","3","6","1",
      "5","2","5","0","0","3","1","9","3","7","0","4","5","7","6","7","8","2","4","9","2","1","9","3",
      "6","5","6","2","3","6","6","9","8","6","3","6","5","8","4","8","0","7","5","7","0","0","1","5",
      "8","5","7","6","9","2","6","9","9","0","3","7","0","6","3","1","1","9","2","8","2","7","9","5",
      "5","8","5","5","1","3","3","2","9","2","7","8","3","4","3","3","8","4","0","9","3","5","1","9",
      "7","8","0","1","5","5","3","1","2","4","6","5","9","7","2","6","3","5","7","9","5","7","4","6",
      "2","2","7","6","6","4","6","5","2","7","2","8","2","7","2","2","0","0","5","6","3","7","4","0",
      "0","6","4","8","5","4","9","9","9","7","7","0","9","6","5","9","9","4","7","0","4","5","4","0",
      "2","0","8","2","8","1","6","6","2","2","6","2","3","7","8","5","7","3","9","3","4","5","0","7",
      "3","6","3","3","9","0","0","7","9","6","7","7","6","1","9","3","0","5","7","7","5","0","6","7",
      "4","0","1","7","6","3","2","4","6","7","3","6","0","0","9","6","8","9","5","1","3","4","0","5",
      "3","5","5","3","7","4","5","8","5","1","6","6","6","1","1","3","4","2","2","3","7","6","6","6",
      "7","8","6","0","4","1","6","2","1","5","9","6","8","0","4","6","1","9","1","4","4","6","7","2",
      "9","1","8","4","0","3","0","0","5","3","0","0","5","7","5","3","0","8","4","9","0","4","8","7",
      "6","5","3","9","1","7","1","1","3","8","6","5","9","1","6","4","6","2","3","9","5","2","4","9",
      "1","2","6","2","3","6","5","3","8","8","1","8","7","9","6","3","6","2","3","9","3","7","3","2",
      "8","0","4","2","3","8","9","1","0","1","8","6","7","2","3","4","8","4","9","7","6","6","8","2",
      "3","5","0","8","9","8","6","3","3","8","8","5","8","7","9","2","5","6","2","8","3","0","2","7",
      "5","5","9","9","5","6","5","7","5","2","4","4","5","5","5","0","7","2","5","5","1","8","9","3",
      "1","3","6","9","0","8","3","6","2","5","4","7","7","9","1","8","6","9","4","8","6","6","7","9",
      "9","4","9","6","8","3","2","4","0","4","9","7","0","5","8","2","1","0","2","8","5","1","3","1",
      "8","5","4","5","1","3","9","6","2","1","3","8","3","7","7","2","2","8","2","6","1","4","5","4",
      "3","7","6","9","3","4","1","2","5","3","2","0","9","8","5","9","1","3","2","7","6","6","7","2",
      "3","6","3","2","8","1","2","5">>

\* the digits sig, read as d.ddd, are at most the digits of 2^-1075
AtMostUnderflow(sig) ==
    LET last == IF Len(sig) > Len(UnderflowDigits) THEN Len(sig)
                ELSE Len(UnderflowDigits)
        At(k) == IF k <= Len(sig) THEN HexOf[sig[k]] ELSE 0
        Limit(k) == IF k <= Len(UnderflowDigits) THEN HexOf[UnderflowDigits[k]]
                    ELSE 0
        differ == {k \in 1..last : At(k) # Limit(k)}
    IN  IF differ = {} THEN TRUE
        ELSE At(Least(differ)) < Limit(Least(differ))

\* a number literal whose value is 0: it denotes zero, or its value is so
\* small that the nearest double is 0.  The first digit that is not 0 counts
\* 10^(shift + exponent); the value rounds to 0 when that power is below
\* 10^-324, and at 10^-324 when the digits are at most those of 2^-1075
IsZeroNumber(text) ==
    LET parts == NumberParts(text)
        all == parts.int \o parts.frac
        nonZero == {k \in 1..Len(all) : all[k] # "0"}
    IN  IF nonZero = {} THEN TRUE
        ELSE LET p == Least(nonZero)
                 shift == Len(parts.int) - p
                 order == CompareExponent(parts, 0 - 324 - shift)
             IN  IF order # 0
                 THEN order < 0
                 ELSE AtMostUnderflow(SubSeq(all, p, Len(all)))

\* what `||` takes for true
JsTruthy(val) ==
    CASE val.t \in {"undefined", "null"} -> FALSE
      [] val.t = "bool" -> val.s = litTrue
      [] val.t = "num" -> ~IsZeroNumber(val.s)
      [] val.t = "str" -> val.s # << >>
      [] OTHER -> TRUE

\* `a || b`
OrElse(a, b) == IF JsTruthy(a) THEN a ELSE b

keySql ==
    <<"s","q","l">>
keyExplanation ==
    <<"e","x","p","l","a","n","a","t","i","o","n">>
keyConfidence ==
    <<"c","o","n","f","i","d","e","n","c","e">>
txtHigh ==
    <<"h","i","g","h">>
txtMedium ==
    <<"m","e","d","i","u","m">>
txtLow ==
    <<"l","o","w">>
txtNoExplanation ==
    <<"N","o"," ","e","x","p","l","a","n","a","t","i","o","n"," ","p","r",
      "o","v","i","d","e","d">>
txtExtracted ==
    <<"E","x","t","r","a","c","t","e","d"," ","S","Q","L"," ","f","r","o",
      "m"," ","r","e","s","p","o","n","s","e">>
fenceJson ==
    <<GraveAccent,GraveAccent,GraveAccent,"j","s","o","n">>
fence ==
    <<GraveAccent,GraveAccent,GraveAccent>>

\* String.prototype.endsWith
EndsWith(s, w) == Len(w) <= Len(s) /\ SubSeq(s, Len(s) - Len(w) + 1, Len(s)) = w

\* String.prototype.slice(n), n >= 0
SliceFrom(s, n) == SubSeq(s, n + 1, Len(s))

\* the text handed to JSON.parse: trimmed, the opening and the closing fence
\* marker removed, trimmed again
JsonStr(response) ==
    LET trimmed == Trim(response)
        opened == IF StartsWith(trimmed, fenceJson) THEN SliceFrom(trimmed, 7)
                  ELSE IF StartsWith(trimmed, fence) THEN SliceFrom(trimmed, 3)
                  ELSE trimmed
        closed == IF EndsWith(opened, fence)
                  THEN SubSeq(opened, 1, Len(opened) - 3) ELSE opened
    IN  Trim(closed)

\* what parseLLMResponse hands back
ParseResult(path, sql, explanation, confidence) ==
    [kind |-> "return", path |-> path, sql |-> sql,
     explanation |-> explanation, confidence |-> confidence]

\* an error that leaves parseLLMResponse
ParseThrown == [kind |-> "throw", path |-> "none", sql |-> Undefined,
                explanation |-> Undefined, confidence |-> Undefined]

\* a coercion that hands on whatever confidence the reply holds
ConfidenceAsGiven(given) == OrElse(given, JsString(txtMedium))

\* `['high', 'medium', 'low'].includes(c) ? c : 'medium'`
Confidence(given) ==
    IF given \in {JsString(txtHigh), JsString(txtMedium), JsString(txtLow)}
    THEN given ELSE JsString(txtMedium)

\* the try block: what it returns, or the error it raises (JSON.parse raises
\* a SyntaxError, reading a property of null raises a TypeError)
TryBlock(response) ==
    Only({ IF parsed.threw THEN [threw |-> "SyntaxError", result |-> ParseThrown]
           ELSE IF parsed.value.t = "null"
           THEN [threw |-> "TypeError", result |-> ParseThrown]
           ELSE [threw |-> "none",
                 result |-> ParseResult("json",
                               OrElse(GetProperty(parsed.value, keySql),
                                      JsString(<< >>)),
                               OrElse(GetProperty(parsed.value, keyExplanation),
                                      JsString(txtNoExplanation)),
                               Confidence(GetProperty(parsed.value, keyConfidence)))]
           : parsed \in {JsonParse(JsonStr(response))} })

\* `response.match(/SELECT[\s\S]+?(?:;|$)/i)`: from the first SELECT that has
\* a character after it, over at least one character, up to the first
\* semicolon after that character or else to the end
SelectMatch(response) ==
    LET starts == {p \in 1..Len(response) :
                     WordAtI(response, p, kwSelect) /\ p + 6 <= Len(response)}
    IN  IF starts = {} THEN [found |-> FALSE, text |-> << >>]
        ELSE LET p == Least(starts)
                 semis == {q \in (p + 7)..Len(response) : response[q] = ";"}
                 last == IF semis = {} THEN Len(response) ELSE Least(semis)
             IN  [found |-> TRUE, text |-> SubSeq(response, p, last)]

\* the catch block
CatchBlock(response) ==
    LET sqlMatch == SelectMatch(response)
    IN  ParseResult("fallback",
            JsString(IF sqlMatch.found THEN Trim(sqlMatch.text) ELSE response),
            JsString(txtExtracted),
            JsString(txtLow))

\* a catch clause that handles the SyntaxError of JSON.parse only
CatchesSyntaxErrorOnly(thrown) == thrown = "SyntaxError"

\* `catch {`: every error of the try block is handled
Catches(thrown) == TRUE

\* parseLLMResponse(response)
parseLLMResponse(response) ==
    Only({ IF try.threw = "none" THEN try.result
           ELSE IF Catches(try.threw) THEN CatchBlock(response)
           ELSE ParseThrown
           : try \in {TryBlock(response)} })

\* the pieces the replies of the model are made of
replyFenceJson ==
    <<GraveAccent,GraveAccent,GraveAccent,"j","s","o","n","\n">>
replyFence ==
    <<GraveAccent,GraveAccent,GraveAccent>>
replyFenceSql ==
    <<GraveAccent,GraveAccent,GraveAccent,"s","q","l","\n">>
replySpace ==
    <<" ","\n">>
replyFull ==
    <<"{","\"","s","q","l","\"",":","\"","S","E","L","E","C","T"," ","1",
      ";","\"",",","\"","e","x","p","l","a","n","a","t","i","o","n","\"",
      ":","\"","x","\"",",","\"","c","o","n","f","i","d","e","n","c","e",
      "\"",":","\"","h","i","g","h","\"","}">>
replyMaybe ==
    <<"{","\"","s","q","l","\"",":","\"","s","e","l","e","c","t"," ","a",
      "\"",","," ","\"","c","o","n","f","i","d","e","n","c","e","\"",":",
      "\"","m","a","y","b","e","\"","}">>
replyFalsy ==
    <<"{","\"","s","q","l","\"",":","0",",","\"","e","x","p","l","a","n",
      "a","t","i","o","n","\"",":","\"","\"",",","\"","c","o","n","f","i",
      "d","e","n","c","e","\"",":","n","u","l","l","}">>
replyArray ==
    <<"{","\"","s","q","l","\"",":","[","1","]",",","\"","c","o","n","f",
      "i","d","e","n","c","e","\"",":","\"","l","o","w","\"","}">>
replyNull ==
    <<"n","u","l","l">>
replyNumber ==
    <<"5">>
replyString ==
    <<"\"","S","E","L","E","C","T"," ","2","\"">>
replyEmptyArray ==
    <<"[","]">>
replyProse ==
    <<"U","s","e"," ","S","E","L","E","C","T"," ","*"," ","F","R","O","M",
      " ","t",";"," ","o","k">>
replySelect ==
    <<"s","e","l","e","c","t">>
replySemicolon ==
    <<";">>
\* a quoted identifier and a line break, both escaped, in the SQL; an
\* explanation that is a number too small for a double
replyEscaped ==
    <<"{","\"","s","q","l","\"",":","\"","S","E","L","E","C","T"," ","\\",
      "\"","a","\\","\"","\\","n","F","R","O","M"," ","t","\"",",","\"","e",
      "x","p","l","a","n","a","t","i","o","n","\"",":","1","e","-","4","0",
      "0","}">>

ReplyFragments ==
    {replyEscaped,
     replyFenceJson,
     replyFence,
     replyFenceSql,
     replySpace,
     replyFull,
     replyMaybe,
     replyFalsy,
     replyArray,
     replyNull,
     replyNumber,
     replyString,
     replyEmptyArray,
     replyProse,
     replySelect,
     replySemicolon}

\* the replies: at most MaxFrags pieces, one after another
ReplyTexts ==
    { Flatten(fs) : fs \in UNION { [1..k -> ReplyFragments] : k \in 0..MaxFrags } }

NotParsed == [done |-> FALSE, result |-> ParseThrown]

\* one call of parseLLMResponse on the reply
ParseLLMResponseCall ==
    /\ ~llmParsed.done
    /\ llmParsed' = [done |-> TRUE, result |-> parseLLMResponse(llmReply)]
    /\ UNCHANGED <<llmReply, promptArgs, promptText>>
    /\ UNCHANGED <<varsExec, varsGen, varsSchema, varsPost, varsOther>>

(***************************************************************************)
(* lib/llm/prompts: buildUserPrompt.                                       *)
(*                                                                         *)
(* The prompt is the sequence of the pieces that the template literals     *)
(* put one after another: the fixed pieces as they are written, and the    *)
(* texts of the arguments, each one piece.                                 *)
(***************************************************************************)
\* a history holds at most MaxHistory pairs
MaxHistory == 5

\* the (question, SQL) pairs a history is made of
HistoryPairs ==
    { [nl |-> "how many users", sql |-> "SELECT count(*) FROM users"],
      [nl |-> "newest order", sql |-> "SELECT max(id) FROM orders"],
      [nl |-> "all emails", sql |-> "SELECT email FROM customers"] }

\* previousQueries: absent, or an array of pairs
NoHistory == [given |-> FALSE, items |-> << >>]
Histories ==
    {NoHistory} \cup
    { [given |-> TRUE, items |-> h] :
        h \in UNION { [1..k -> HistoryPairs] : k \in 0..MaxHistory } }

pcBlank == "\n\n"
pcPrevious == "PREVIOUS QUERIES FOR CONTEXT:\n"
pcUser == "User: "
pcSql == "\nSQL: "
pcQuestion == "USER QUESTION: "
pcGenerate == "Generate the SQL query:"

\* a slice that keeps the oldest k
SliceFirst(seq, k) == SubSeq(seq, 1, IF Len(seq) < k THEN Len(seq) ELSE k)

\* `seq.slice(-k)`
SliceLast(seq, k) == SubSeq(seq, IF Len(seq) > k THEN Len(seq) - k + 1 ELSE 1, Len(seq))

\* the loop over the retained pairs
RECURSIVE RenderPairs(_)
RenderPairs(pairs) ==
    IF pairs = << >> THEN << >>
    ELSE <<pcUser, Head(pairs).nl, pcSql, Head(pairs).sql, pcBlank>>
             \o RenderPairs(Tail(pairs))

\* buildUserPrompt(naturalLanguageQuery, schemaContext, previousQueries)
buildUserPrompt(naturalLanguageQuery, schemaContext, previousQueries) ==
    <<schemaContext, pcBlank>>
        \o (IF previousQueries.given /\ Len(previousQueries.items) > 0
            THEN <<pcPrevious>> \o RenderPairs(SliceLast(previousQueries.items, 3))
            ELSE << >>)
        \o <<pcQuestion, naturalLanguageQuery, pcBlank>>
        \o <<pcGenerate>>

NoPromptArgs ==
    [called |-> FALSE, naturalLanguageQuery |-> "", schemaContext |-> "",
     previousQueries |-> NoHistory]

\* one call of buildUserPrompt on the arguments
BuildUserPromptCall ==
    /\ ~promptArgs.called
    /\ promptArgs' = [promptArgs EXCEPT !.called = TRUE]
    /\ promptText' = buildUserPrompt(promptArgs.naturalLanguageQuery,
                                     promptArgs.schemaContext,
                                     promptArgs.previousQueries)
    /\ UNCHANGED <<llmReply, llmParsed>>
    /\ UNCHANGED <<varsExec, varsGen, varsSchema, varsPost, varsOther>>

(***************************************************************************)
(* lib/db/schema: formatSchemaForLLM.                                      *)
(*                                                                         *)
(* The text is a sequence of pieces: the fixed parts of the template       *)
(* literals, the names and comments of the schema, and "\n" between lines. *)
(***************************************************************************)
\* `if (table.comment)`, `col.comment ? ... : ''`: SQL NULL and '' are falsy
TruthyText(v) == v \notin {"", NullValue}

\* flags.join(', '), lines.join('\n')
RECURSIVE Join(_, _)
Join(parts, sep) ==
    IF Len(parts) = 0 THEN << >>
    ELSE IF Len(parts) = 1 THEN parts[1]
    ELSE parts[1] \o <<sep>> \o Join(Tail(parts), sep)

\* flags pushed in the other order
FlagsNotNullFirst(col) ==
    (IF ~col.isNullable THEN << <<"NOT NULL">> >> ELSE << >>)
        \o (IF col.isPrimary THEN << <<"PRIMARY KEY">> >> ELSE << >>)

\* `const flags`: PRIMARY KEY pushed first, then NOT NULL
Flags(col) ==
    (IF col.isPrimary THEN << <<"PRIMARY KEY">> >> ELSE << >>)
        \o (IF ~col.isNullable THEN << <<"NOT NULL">> >> ELSE << >>)

\* the line pushed for one column
ColumnLine(col) ==
    LET flags == Flags(col)
        flagStr == IF Len(flags) > 0
                   THEN <<" [">> \o Join(flags, ", ") \o <<"]">>
                   ELSE << >>
        commentStr == IF TruthyText(col.comment)
                      THEN <<" -- ", col.comment>> ELSE << >>
    IN  <<"    - ", col.name, ": ", col.type>> \o flagStr \o commentStr

\* the line pushed for one foreign key
ForeignKeyLine(fk) ==
    <<"    - ", fk.columnName, " -> ", fk.referencedTable, ".",
      fk.referencedColumn>>

\* the lines pushed for one table, the empty line after it included
TableLines(table) ==
    << <<"TABLE: ", table.name>> >>
        \o (IF TruthyText(table.comment)
            THEN << <<"  Description: ", table.comment>> >> ELSE << >>)
        \o << <<"  Columns:">> >>
        \o [i \in 1..Len(table.columns) |-> ColumnLine(table.columns[i])]
        \o (IF Len(table.foreignKeys) > 0
            THEN << <<"  Foreign Keys:">> >>
                     \o [i \in 1..Len(table.foreignKeys) |->
                           ForeignKeyLine(table.foreignKeys[i])]
            ELSE << >>)
        \o << << >> >>

RECURSIVE LinesOfTables(_)
LinesOfTables(tables) ==
    IF Len(tables) = 0 THEN << >>
    ELSE TableLines(Head(tables)) \o LinesOfTables(Tail(tables))

\* formatSchemaForLLM(schema)
formatSchemaForLLM(schema) ==
    Join(<< <<"DATABASE SCHEMA:">>, << >> >> \o LinesOfTables(schema.tables), "\n")

(***************************************************************************)
(* app/api/query: the POST handler.                                        *)
(***************************************************************************)
replyDrop ==
    <<"{","\"","s","q","l","\"",":","\"","D","R","O","P"," ","T","A","B",
      "L","E"," ","t","\"",",","\"","e","x","p","l","a","n","a","t","i","o",
      "n","\"",":","\"","r","e","m","o","v","e","s"," ","t","\"","}">>

\* the text behind each reply of the transports
ReplyBody(text) ==
    CASE text = "reply1" -> replyFull
      [] text = "reply2" -> replyDrop
      [] OTHER -> replyArray

\* the replies the transports give, and "none" for no reply
ReplyNames == {"reply1", "reply2", "reply3", "none"}

\* `parseLLMResponse(responseText)` for each reply
LlmTable == [text \in ReplyNames |-> parseLLMResponse(ReplyBody(text))]

\* the sql, explanation and confidence of a provider's response: what
\* parseLLMResponse made of the reply
LlmFields(response) == LlmTable[response.text]

\* isProviderConfigured(provider)
IsProviderConfigured(provider) ==
    IF provider \in {"gemini", "claude"} THEN envKeys[provider] ELSE FALSE

\* a list that names gemini whatever the environment holds
GetConfiguredProvidersAssumed == <<"gemini">>

\* getConfiguredProviders()
GetConfiguredProviders ==
    (IF IsProviderConfigured("gemini") THEN <<"gemini">> ELSE << >>)
        \o (IF IsProviderConfigured("claude") THEN <<"claude">> ELSE << >>)

\* what request.json() gives: a rejection, null, or an object whose query is
\* missing, empty, a number or a text, with or without a provider
PostBodies ==
    { [kind |-> "invalid", query |-> "missing", provider |-> "undefined"],
      [kind |-> "null", query |-> "missing", provider |-> "undefined"] }
    \cup { [kind |-> "object", query |-> q, provider |-> "undefined"] :
             q \in {"missing", "empty", "number"} }
    \cup { [kind |-> "object", query |-> "text", provider |-> p] :
             p \in {"undefined", "claude", "openai"} }

NoBody == [kind |-> "none", query |-> "missing", provider |-> "undefined"]

\* the response of the handler
NoResponse ==
    [status |-> 0, success |-> FALSE, error |-> << >>,
     generatedSQL |-> Undefined, explanation |-> Undefined]
ErrorResponse(status, error) ==
    [status |-> status, success |-> FALSE, error |-> error,
     generatedSQL |-> Undefined, explanation |-> Undefined]
ValidationResponse(error, sql, explanation) ==
    [status |-> 400, success |-> FALSE, error |-> error,
     generatedSQL |-> sql, explanation |-> explanation]
SuccessResponse(sql, explanation) ==
    [status |-> 200, success |-> TRUE, error |-> << >>,
     generatedSQL |-> sql, explanation |-> explanation]

MsgQueryRequired == <<"Query", "is", "required">>
MsgNoProviders ==
    <<"No", "LLM", "providers", "configured.", "Please", "set",
      "GEMINI_API_KEY", "or", "CLAUDE_API_KEY.">>
MsgNoTables ==
    <<"No", "tables", "found", "in", "database.", "Please", "check",
      "your", "connection.">>
MsgUnexpected == <<"An", "unexpected", "error", "occurred">>
MsgBadJson == <<"Unexpected", "end", "of", "JSON", "input">>
MsgBodyNull ==
    <<"Cannot", "read", "properties", "of", "null", "(reading", "'query')">>
MsgTrimNotFunction == <<"sql.trim", "is", "not", "a", "function">>

\* a catch block that sends nothing: the error leaves the handler
PostCatchRethrows(isError, message) == NoResponse

\* the catch block of the handler
PostCatch(isError, message) ==
    ErrorResponse(500, IF isError THEN message ELSE MsgUnexpected)

\* `!body.query || typeof body.query !== 'string'`
QueryMissing(body) == body.query # "text"

\* a check that lets every generated statement through
InvalidNever(validation) == FALSE

\* `if (!validation.valid)`
Invalid(validation) == ~validation.valid

\* the caller whose introspection the handler awaits
PostCaller == "first"

\* the request arrives: `await request.json()` is pending
PostCall ==
    /\ postPc = "idle"
    /\ postPc' = "awaitBody"
    /\ UNCHANGED <<postBody, postLlm, postResponse, postLog>>
    /\ UNCHANGED <<varsExec, varsGen, varsSchema, varsPure, varsOther>>

\* request.json() settles: the request check, the provider check, and the
\* call of introspectSchema()
PostBodyArrives ==
    /\ postPc = "awaitBody"
    /\ IF postBody.kind # "object"
       THEN /\ postResponse' = PostCatch(TRUE, IF postBody.kind = "invalid"
                                               THEN MsgBadJson ELSE MsgBodyNull)
            /\ postPc' = "done"
            /\ UNCHANGED <<postLog, icall>>
       ELSE IF QueryMissing(postBody)
       THEN /\ postResponse' = ErrorResponse(400, MsgQueryRequired)
            /\ postPc' = "done"
            /\ UNCHANGED <<postLog, icall>>
       ELSE IF Len(GetConfiguredProviders) = 0
       THEN /\ postResponse' = ErrorResponse(500, MsgNoProviders)
            /\ postPc' = "done"
            /\ UNCHANGED <<postLog, icall>>
       ELSE /\ icall' = [icall EXCEPT ![PostCaller] = BeginCall("post", FALSE, schemaCache)]
            /\ postLog' = Append(postLog, "introspectSchema")
            /\ postPc' = "awaitSchema"
            /\ UNCHANGED postResponse
    /\ UNCHANGED <<postBody, postLlm>>
    /\ UNCHANGED <<catalog, schemaCache, clock, sinceClear, gotSchema>>
    /\ UNCHANGED <<varsExec, varsGen, varsPure, varsOther>>

\* introspectSchema() settles: the empty-schema check, then
\* formatSchemaForLLM(schema), whose text (fmtText) is the schemaContext of
\* the request, and the call of generateSQL(request, body.provider)
PostSchemaReturn ==
    /\ postPc = "awaitSchema"
    /\ icall[PostCaller].pc \in {"done", "failed"}
    /\ IF icall[PostCaller].pc = "failed"
       THEN /\ postResponse' = PostCatch(TRUE, icall[PostCaller].error)
            /\ postPc' = "done"
            /\ UNCHANGED <<postLog, varsGen, fmtSchema, fmtText>>
       ELSE IF Len(icall[PostCaller].result.tables) = 0
       THEN /\ postResponse' = ErrorResponse(400, MsgNoTables)
            /\ postPc' = "done"
            /\ UNCHANGED <<postLog, varsGen, fmtSchema, fmtText>>
       ELSE /\ fmtSchema' = icall[PostCaller].result
            /\ fmtText' = formatSchemaForLLM(icall[PostCaller].result)
            /\ GenerateSQLBegin(postBody.provider)
            /\ postLog' = Append(postLog, "generateSQL")
            /\ postPc' = "awaitGen"
            /\ UNCHANGED <<postResponse, envProvider, envKeys>>
    /\ UNCHANGED <<postBody, postLlm>>
    /\ UNCHANGED <<getResponse, connPc, connResponse, pcall>>
    /\ UNCHANGED <<varsExec, varsSchema, varsPure>>

\* generateSQL settles: validateQuery(llmResponse.sql), the 400 response for
\* a statement that is not valid, else the call of executeQuery
PostGenReturn ==
    /\ postPc = "awaitGen"
    /\ genPc = "done"
    /\ postLlm' = genResult
    /\ IF genResult.kind # "response"
       THEN /\ postResponse' = PostCatch(genResult.isError, genResult.message)
            /\ postPc' = "done"
            /\ UNCHANGED <<postLog, varsExec>>
       ELSE \E llm \in {LlmFields(genResult)} :
                IF llm.sql.t # "str"
                THEN \* `sql.trim()` of validateQuery raises a TypeError
                     /\ postResponse' = PostCatch(TRUE, MsgTrimNotFunction)
                     /\ postPc' = "done"
                     /\ UNCHANGED <<postLog, varsExec>>
                ELSE \E validation \in {validateQuery(llm.sql.s)} :
                     IF Invalid(validation)
                     THEN /\ postResponse' =
                               ValidationResponse(validation.error, llm.sql, llm.explanation)
                          /\ postPc' = "done"
                          /\ UNCHANGED <<postLog, varsExec>>
                     ELSE /\ exSql' = llm.sql.s
                          /\ ExecuteQueryBegin(llm.sql.s)
                          /\ postLog' = Append(postLog, "executeQuery")
                          /\ postPc' = "awaitExec"
                          /\ UNCHANGED postResponse
    /\ UNCHANGED postBody
    /\ UNCHANGED <<varsGen, varsSchema, varsPure, varsOther>>

\* executeQuery settles: the success response, or the catch block
PostExecReturn ==
    /\ postPc = "awaitExec"
    /\ exPc = "done"
    /\ postResponse' =
          IF exResult.kind = "rows"
          THEN SuccessResponse(LlmFields(postLlm).sql, LlmFields(postLlm).explanation)
          ELSE PostCatch(exResult.isError, exResult.message)
    /\ postPc' = "done"
    /\ UNCHANGED <<postBody, postLlm, postLog>>
    /\ UNCHANGED <<varsExec, varsGen, varsSchema, varsPure, varsOther>>

(***************************************************************************)
(* formatSchemaForLLM called by itself, and the catalogs it is tried on.   *)
(***************************************************************************)
\* formatSchemaForLLM(schema), called on the schema introspectSchema returned
FormatSchemaForLLMCall(c) ==
    /\ icall[c].pc = "done"
    /\ fmtSchema' = icall[c].result
    /\ fmtText' = formatSchemaForLLM(icall[c].result)
    /\ UNCHANGED <<getResponse, connPc, connResponse, pcall>>
    /\ UNCHANGED <<varsExec, varsGen, varsSchema, varsPure, varsPost>>

\* one-table catalogs with every shape of rows the catalog queries can give:
\* no, one or two columns; key rows that name no column, a column, a column
\* twice, both columns, or a column the table does not have; with and
\* without foreign keys and comments
IdColumn == ColumnRow("id", "integer", "int4", "NO", NullValue, "surrogate key")
NoteColumn == ColumnRow("note", "text", NullValue, "YES", NullValue, NullValue)
CodeColumn == ColumnRow("code", "character", "bpchar", "NO", NullValue, "short code")
WideTables ==
    { CatalogTable("items", comment, columns, pk, fk) :
        comment \in {NullValue, "things sold"},
        columns \in { << >>, <<IdColumn>>, <<IdColumn, NoteColumn>>,
                      <<NoteColumn, CodeColumn>> },
        pk \in { << >>, <<[column_name |-> "id"]>>,
                 <<[column_name |-> "id"], [column_name |-> "id"]>>,
                 <<[column_name |-> "id"], [column_name |-> "note"]>>,
                 <<[column_name |-> "order_id"]>> },
        fk \in { << >>, <<FkRow("id", "orders", "id")>> } }
WideCatalogs == Catalogs \cup { <<t>> : t \in WideTables }

(***************************************************************************)
(* app/api/schema and app/api/connection: the GET handlers.                *)
(***************************************************************************)
MsgFetchFailed == <<"Failed", "to", "fetch", "schema">>
MsgConnectionTestFailed == <<"Connection", "test", "failed">>
MsgUnknownConnection == <<"Unknown", "connection", "error">>

\* the catch block of GET /api/schema
SchemaCatch(isError, message) ==
    [NoGetResponse EXCEPT !.status = 500,
                          !.error = IF isError THEN message ELSE MsgFetchFailed]

\* the response of GET /api/schema for the schema introspectSchema returned
SchemaResponse(schema) ==
    [NoGetResponse EXCEPT !.status = 200, !.success = TRUE,
                          !.tables = schema.tables,
                          !.tableCount = Len(schema.tables),
                          !.timestamp = schema.timestamp]

\* GET /api/schema after its await: the response, or the catch block
SchemaGetReturn(c) ==
    /\ icall[c].via = "get"
    /\ icall[c].pc \in {"done", "failed"}
    /\ getResponse[c].status = 0
    /\ getResponse' = [getResponse EXCEPT ![c] =
                         IF icall[c].pc = "done"
                         THEN SchemaResponse(icall[c].result)
                         ELSE SchemaCatch(TRUE, icall[c].error)]
    /\ UNCHANGED <<connPc, connResponse, pcall, fmtSchema, fmtText>>
    /\ UNCHANGED <<varsExec, varsGen, varsSchema, varsPure, varsPost>>

\* what `p.query('SELECT current_database() ...')` can settle to: a row, no
\* row, or a rejection with some value
ConnectionOutcomes ==
    { [kind |-> "rows", isError |-> FALSE, message |-> << >>, db |-> "shop",
       server |-> "10.0.0.5"],
      [kind |-> "rows", isError |-> FALSE, message |-> << >>, db |-> "undefined",
       server |-> "undefined"],
      [kind |-> "throw", isError |-> TRUE, message |-> <<"ECONNREFUSED">>,
       db |-> "undefined", server |-> "undefined"],
      [kind |-> "throw", isError |-> FALSE, message |-> <<"boom">>,
       db |-> "undefined", server |-> "undefined"] }

\* `x || null`
OrNull(v) == IF v \in {"", "undefined", NullValue} THEN NullValue ELSE v

\* testConnection(): the ConnectionStatus it returns; it never rejects
TestConnection(outcome) ==
    IF outcome.kind = "rows"
    THEN [connected |-> TRUE, database |-> OrNull(outcome.db),
          server |-> OrNull(outcome.server), error |-> << >>]
    ELSE [connected |-> FALSE, database |-> NullValue, server |-> NullValue,
          error |-> IF outcome.isError THEN outcome.message
                    ELSE MsgUnknownConnection]

NoConnectionStatus ==
    [connected |-> FALSE, database |-> NullValue, server |-> NullValue,
     error |-> << >>]

\* GET /api/connection has sent no response
NoConnResponse ==
    [status |-> 0, success |-> FALSE, error |-> << >>,
     database |-> NoConnectionStatus, configuredProviders |-> << >>,
     hasProvider |-> FALSE]

\* the catch block of GET /api/connection
ConnectionCatch(isError, message) ==
    [NoConnResponse EXCEPT !.status = 500,
                           !.error = IF isError THEN message
                                     ELSE MsgConnectionTestFailed]

\* the response of GET /api/connection
ConnectionResponse(connectionStatus, llmProviders) ==
    [NoConnResponse EXCEPT !.status = 200, !.success = TRUE,
                           !.database = connectionStatus,
                           !.configuredProviders = llmProviders,
                           !.hasProvider = (Len(llmProviders) > 0)]

\* GET /api/connection up to its await: testConnection() has handed its
\* query to the pool
ConnectionGetCall ==
    /\ connPc \in {"idle", "done"}
    /\ connPc' = "awaitTest"
    /\ connResponse' = NoConnResponse
    /\ UNCHANGED <<getResponse, pcall, fmtSchema, fmtText>>
    /\ UNCHANGED <<varsExec, varsGen, varsSchema, varsPure, varsPost>>

\* testConnection() settles: getConfiguredProviders() and the response
ConnectionGetReturn(outcome) ==
    /\ connPc = "awaitTest"
    /\ connResponse' = ConnectionResponse(TestConnection(outcome),
                                          GetConfiguredProviders)
    /\ connPc' = "done"
    /\ UNCHANGED <<getResponse, pcall, fmtSchema, fmtText>>
    /\ UNCHANGED <<varsExec, varsGen, varsSchema, varsPure, varsPost>>

(***************************************************************************)
(* lib/llm: the transport clients under calls that overlap.                *)
(***************************************************************************)
\* a caller that has not called generateSQLWithGemini / generateSQLWithClaude
\* built: this call's getClient ran `new`; client: getClient returned a client
IdleProviderCall ==
    [pc |-> "idle", fn |-> "none", built |-> FALSE, client |-> FALSE,
     result |-> GenNone]

\* generateSQLWithGemini / generateSQLWithClaude up to the await of the
\* transport: getClient() runs to its end within the step
ProviderCall(c, fn) ==
    /\ pcall[c].pc \in {"idle", "done"}
    /\ clients' = ClientsAfterGetClient(fn)
    /\ pcall' = [pcall EXCEPT ![c] =
                   IF GetClientThrows(fn)
                   THEN [pc |-> "done", fn |-> fn, built |-> FALSE,
                         client |-> FALSE, result |-> ProviderCallStart(fn)]
                   ELSE [pc |-> "awaitTransport", fn |-> fn,
                         built |-> ~clients[fn], client |-> clients'[fn],
                         result |-> ProviderCallStart(fn)]]
    /\ UNCHANGED <<envProvider, envKeys, genPc, genPref, genPrimary, genFallback,
                   genCalls, genPending, genPrimaryError, genResult>>
    /\ UNCHANGED <<getResponse, connPc, connResponse, fmtSchema, fmtText>>
    /\ UNCHANGED <<varsExec, varsSchema, varsPure, varsPost>>

\* the transport call of a provider call settles
ProviderSettles(c, outcome) ==
    /\ pcall[c].pc = "awaitTransport"
    /\ outcome \in TransportOutcomes(pcall[c].fn)
    /\ pcall' = [pcall EXCEPT ![c] =
                   [@ EXCEPT !.pc = "done",
                             !.result = ProviderCallEnd(pcall[c].fn, outcome)]]
    /\ UNCHANGED <<getResponse, connPc, connResponse, fmtSchema, fmtText>>
    /\ UNCHANGED <<varsExec, varsGen, varsSchema, varsPure, varsPost>>

(***************************************************************************)
(* The variables of the parts that a specification leaves alone.           *)
(***************************************************************************)
\* the prompt variables while no prompt function is under study
PureAtRest ==
    /\ llmReply = << >>
    /\ llmParsed = NotParsed
    /\ promptArgs = NoPromptArgs
    /\ promptText = << >>

\* the request variables while no request is handled
PostAtRest ==
    /\ postPc = "idle"
    /\ postBody = NoBody
    /\ postLlm = GenNone
    /\ postResponse = NoResponse
    /\ postLog = << >>

\* the GET handlers, the overlapping provider calls and the formatter while
\* none of them is under study
OtherAtRest ==
    /\ getResponse = [c \in Callers |-> NoGetResponse]
    /\ connPc = "idle"
    /\ connResponse = NoConnResponse
    /\ pcall = [c \in Callers |-> IdleProviderCall]
    /\ fmtSchema = NoSchema
    /\ fmtText = << >>

\* the provider variables while only the executor runs
GenAtRest ==
    /\ envProvider = "undefined"
    /\ envKeys = [gemini |-> FALSE, claude |-> FALSE]
    /\ clients = [gemini |-> FALSE, claude |-> FALSE]
    /\ genPc = "idle"
    /\ genPref = "undefined"
    /\ genPrimary = "none"
    /\ genFallback = "none"
    /\ genCalls = <<>>
    /\ genPending = GenNone
    /\ genPrimaryError = GenNone
    /\ genResult = GenNone

InitExec ==
    InitExecVars /\ GenAtRest /\ SchemaAtRest /\ PureAtRest /\ PostAtRest /\ OtherAtRest

NextExec ==
    \/ ExecuteQueryCall(exSql)
    \/ \E outcome \in DbOutcomes : ExecuteQueryReturn(outcome)
    \/ ExplainQueryCall(exSql)
    \/ \E outcome \in DbOutcomes : ExplainQueryReturn(outcome)

\* one call of executeQuery or explainQuery on each input text
SpecExec == InitExec /\ [][NextExec]_vars

(***************************************************************************)
(* Properties of the validator and the executor (under SpecExec).          *)
(***************************************************************************)
Called == exKind # "none"

\* C1: executeQuery and explainQuery hand a statement to the pool only for a
\* text validateQuery accepts; when validateQuery rejects the text the call
\* ends at once with the validation error and has issued no statement.
C1_IssueOnlyAfterValidation ==
    LET verdict == validateQuery(exSql)
    IN  /\ exIssued # <<>> => verdict.valid
        /\ (Called /\ ~verdict.valid) =>
              /\ exIssued = <<>>
              /\ exPc = "done"
              /\ exResult = Thrown(TRUE, verdict.error)

C1_Witness ==
    /\ exKind = "explain"
    /\ exPc = "done"
    /\ ~validateQuery(exSql).valid
    /\ exIssued = <<>>
    /\ exResult = Thrown(TRUE, ErrOnlySelect)

\* C2: a text that, trimmed and lowercased, begins with one of the eleven
\* keywords insert, update, delete, drop, truncate, alter, create, grant,
\* revoke, exec, execute (whatever follows the keyword, nothing included) is
\* invalid.
C2_LeadingKeywordInvalid ==
    (Called /\ \E kw \in LeadingKeywords : StartsWith(ToLowerCase(Trim(exSql)), kw))
        => exValidation.valid = FALSE

C2_Witness ==
    /\ Called
    /\ ToLowerCase(Trim(exSql)) = kwExecute
    /\ exSql # kwExecute
    /\ exValidation.valid = FALSE

\* a ';' of s is followed, somewhere later in s, by one of the eleven keywords
SemicolonThenKeyword(s) ==
    \E p \in 1..Len(s) :
        /\ s[p] = ";"
        /\ \E q \in (p + 1)..Len(s) : \E kw \in LeadingKeywords : WordAtI(s, q, kw)

\* C3: a text in which a ';' is followed, anywhere later, by one of the eleven
\* keywords is invalid, also when it starts with select or with.
C3_StackedKeywordInvalid ==
    (Called /\ SemicolonThenKeyword(exSql)) => exValidation.valid = FALSE

Pad(s) == <<" ", "\n">> \o s \o <<"\t", " ">>

\* the text in upper case, for the letters of the input texts: a-z, and the
\* two letters beyond them whose capital is one of A-Z
DotlessI == "U+0131"
LongS == "U+017F"
UpperCaseLetter(c) ==
    IF c = DotlessI THEN "I" ELSE IF c = LongS THEN "S" ELSE UpperChar(c)
InUpperCase(s) == [i \in 1..Len(s) |-> UpperCaseLetter(s[i])]

\* the part of C4 that holds: the verdict is valid exactly when the trimmed,
\* lowercased text matches no forbidden pattern and starts with select or
\* with, and it is the same for the lowercased and for the padded text
ValidExactlyWhen ==
    Called =>
        LET n == ToLowerCase(Trim(exSql))
            starts == StartsWith(n, kwSelect) \/ StartsWith(n, kwWith)
        IN  /\ exValidation.valid = (~MatchesForbidden(n) /\ starts)
            /\ ~starts => ~exValidation.valid
            /\ validateQuery(ToLowerCase(exSql)).valid = exValidation.valid
            /\ validateQuery(Pad(exSql)).valid = exValidation.valid

\* C4: validateQuery answers valid exactly when the trimmed, lowercased text
\* matches no forbidden pattern and starts with select or with; a text that
\* starts with neither is invalid; and the verdict is the same for the text in
\* upper case, in lower case, and with white space added around it.
C4_ValidExactlyWhen ==
    Called =>
        LET n == ToLowerCase(Trim(exSql))
            starts == StartsWith(n, kwSelect) \/ StartsWith(n, kwWith)
        IN  /\ exValidation.valid = (~MatchesForbidden(n) /\ starts)
            /\ ~starts => ~exValidation.valid
            /\ validateQuery(InUpperCase(exSql)).valid = exValidation.valid
            /\ validateQuery(ToLowerCase(exSql)).valid = exValidation.valid
            /\ validateQuery(Pad(exSql)).valid = exValidation.valid

\* position p of s lies inside a string literal '...'
InLiteral(s, p) == Cardinality({k \in 1..(p - 1) : s[k] = "'"}) % 2 = 1

\* a LIMIT clause: outside the string literals, the word LIMIT in any letter
\* case, then white space, then a limit value (a number, ALL, or a parameter
\* $n)
HasLimitClause(s) ==
    \E p \in 1..Len(s) :
        /\ p = 1 \/ ~IsWord(s[p - 1])
        /\ ~InLiteral(s, p)
        /\ WordAtI(s, p, kwLimit)
        /\ \E q \in (p + 5)..Len(s) :
              /\ q > p + 5
              /\ AllSpace(s, p + 5, q - 1)
              /\ \/ IsDigit(s[q])
                 \/ s[q] = "$"
                 \/ WordAtI(s, q, <<"a","l","l">>)

WithoutLastSemicolon(t) ==
    IF t # <<>> /\ t[Len(t)] = ";" THEN SubSeq(t, 1, Len(t) - 1) ELSE t

\* C9: for a validated text without a LIMIT clause, the statement executeQuery
\* sends is the trimmed text, its trailing semicolon removed, followed by
\* " LIMIT 1000".
C9_LimitAppended ==
    (exKind = "execute" /\ exValidation.valid /\ ~HasLimitClause(exSql)) =>
        exIssued = << WithoutLastSemicolon(Trim(exSql))
                        \o <<" ","L","I","M","I","T"," ","1","0","0","0">> >>

\* C10: for a validated text that has a LIMIT clause, in any letter case and
\* whatever the form of its limit value, the statement executeQuery sends is
\* the text itself (surrounding white space aside): no second LIMIT is
\* appended and no semicolon is stripped.
C10_LimitKept ==
    (exKind = "execute" /\ exValidation.valid /\ HasLimitClause(exSql)) =>
        exIssued = << Trim(exSql) >>

(***************************************************************************)
(* The provider orchestrator (SpecGen).                                    *)
(***************************************************************************)
\* the executor variables while only the orchestrator runs
ExecAtRest ==
    /\ exSql = <<>>
    /\ exKind = "none"
    /\ exPc = "idle"
    /\ exValidation = [valid |-> FALSE, error |-> <<>>]
    /\ exIssued = <<>>
    /\ exResult = NoResult

InitGen ==
    /\ envProvider \in EnvProviderValues
    /\ envKeys \in [{"gemini", "claude"} -> BOOLEAN]
    /\ clients = [gemini |-> FALSE, claude |-> FALSE]
    /\ genPc = "idle"
    /\ genPref = "undefined"
    /\ genPrimary = "none"
    /\ genFallback = "none"
    /\ genCalls = <<>>
    /\ genPending = GenNone
    /\ genPrimaryError = GenNone
    /\ genResult = GenNone
    /\ ExecAtRest
    /\ SchemaAtRest
    /\ PureAtRest
    /\ PostAtRest
    /\ OtherAtRest

NextGen ==
    \/ \E preferredProvider \in PreferredValues : GenerateSQLCall(preferredProvider)
    \/ \E outcome \in AllTransportOutcomes : PrimarySettles(outcome)
    \/ PrimaryRejected
    \/ \E outcome \in AllTransportOutcomes : FallbackSettles(outcome)
    \/ FallbackRejected

\* calls of generateSQL, one after another, in every configuration
SpecGen == InitGen /\ [][NextGen]_vars

(***************************************************************************)
(* Properties of the orchestrator (under SpecGen).                         *)
(***************************************************************************)
GenStarted == genPc # "idle"
Failed(entry) == entry.settled.kind = "throw"
Fulfilled(entry) == entry.settled.kind = "response"

\* C5: in a call of generateSQL the primary is invoked first and once; the
\* fallback is invoked only after the primary call has failed, and then once;
\* when the primary call succeeds the fallback is not invoked.
C5_PrimaryThenFallbackOnce ==
    GenStarted =>
        /\ Len(genCalls) \in {1, 2}
        /\ genCalls[1].slot = "primary"
        /\ Len(genCalls) = 2 => genCalls[2].slot = "fallback" /\ Failed(genCalls[1])
        /\ Fulfilled(genCalls[1]) => Len(genCalls) = 1 /\ genPc = "done"
        /\ (genPc = "done" /\ Failed(genCalls[1])) => Len(genCalls) = 2
        /\ genPc = "awaitPrimary" => Len(genCalls) = 1

C5_Witness ==
    /\ genPc = "done"
    /\ Len(genCalls) = 2
    /\ Failed(genCalls[1])
    /\ genCalls[2].slot = "fallback"
    /\ Fulfilled(genCalls[2])

\* the tokens of w stand in message, one after the other
Contains(message, w) ==
    \E i \in 0..(Len(message) - Len(w)) : SubSeq(message, i + 1, i + Len(w)) = w

GenFailedDone == genPc = "done" /\ genResult.kind = "throw"

\* C6: generateSQL fails only if both provider calls fail, and the error it
\* raises holds the identifiers of the two providers that were called and the
\* original error messages of both.
C6_BothMessages ==
    GenFailedDone =>
        /\ Len(genCalls) = 2 /\ Failed(genCalls[1]) /\ Failed(genCalls[2])
        /\ Contains(genResult.message, <<genCalls[1].fn>>)
        /\ Contains(genResult.message, <<genCalls[2].fn>>)
        /\ Contains(genResult.message, genCalls[1].settled.message)
        /\ Contains(genResult.message, genCalls[2].settled.message)

\* what the code does in place of C6: generateSQL fails only if both provider
\* calls fail, and the Error it raises holds the names selected as primary
\* and fallback and, for each of the two calls, the message of what it threw
\* when that is an Error, and the words "Unknown error" when it is any other
\* value
FailsWithSelectedNamesOrUnknown ==
    GenFailedDone =>
        /\ Len(genCalls) = 2 /\ Failed(genCalls[1]) /\ Failed(genCalls[2])
        /\ genResult.isError
        /\ Contains(genResult.message, <<"Primary", "(", genPrimary, "):">>)
        /\ Contains(genResult.message, <<"Fallback", "(", genFallback, "):">>)
        /\ \A i \in {1, 2} :
              LET thrown == genCalls[i].settled
                  label == IF i = 1 THEN "Primary" ELSE "Fallback"
                  name == IF i = 1 THEN genPrimary ELSE genFallback
              IN  Contains(genResult.message,
                           <<label, "(", name, "):">>
                               \o (IF thrown.isError THEN thrown.message
                                                     ELSE <<"Unknown", "error">>))

\* C7: a response generateSQL returns comes from exactly one provider call:
\* the primary's when the primary succeeded, otherwise the fallback's; it is
\* that call's response, and its provider field names the provider called.
C7_ResponseFromOneCall ==
    (genPc = "done" /\ genResult.kind = "response") =>
        LET n == Len(genCalls)
        IN  /\ Fulfilled(genCalls[n])
            /\ \A i \in 1..(n - 1) : Failed(genCalls[i])
            /\ genResult = genCalls[n].settled
            /\ genResult.provider = genCalls[n].fn
            /\ genResult.text # "none"
            /\ genCalls[n].slot = (IF Fulfilled(genCalls[1]) THEN "primary" ELSE "fallback")

C7_Witness ==
    /\ genPc = "done"
    /\ genResult.kind = "response"
    /\ Len(genCalls) = 2
    /\ genCalls[2].fn = "claude"
    /\ genResult.provider = "claude"
    /\ genResult.text = "reply2"

\* C8: for every preference and every LLM_PROVIDER value the primary is the
\* preference, else the configured default, else gemini; the provider invoked
\* first is that primary, and the fallback is the other of gemini and claude,
\* so that the two are distinct.
C8_SelectionAndDispatch ==
    GenStarted =>
        /\ genPrimary = (IF Truthy(genPref) THEN genPref
                         ELSE IF Truthy(envProvider) THEN envProvider
                         ELSE "gemini")
        /\ genCalls[1].fn = genPrimary
        /\ genPrimary # genFallback
        /\ {genPrimary, genFallback} = {"gemini", "claude"}

(***************************************************************************)
(* The schema cache (SpecSchema).                                          *)
(***************************************************************************)
InitSchema ==
    /\ catalog \in Catalogs
    /\ schemaCache = NoSchema
    /\ clock = 0
    /\ icall = [c \in Callers |-> IdleCall]
    /\ sinceClear = FALSE
    /\ gotSchema = NotGot
    /\ ExecAtRest
    /\ GenAtRest
    /\ PureAtRest
    /\ PostAtRest
    /\ OtherAtRest

NextSchema ==
    \/ \E c \in Callers, forceRefresh \in BOOLEAN : IntrospectSchemaCall(c, forceRefresh)
    \/ \E c \in Callers, refresh \in BOOLEAN : SchemaGetCall(c, refresh)
    \/ \E c \in Callers, ok \in BOOLEAN : TablesReply(c, ok)
    \/ \E c \in Callers, ok \in BOOLEAN : ColumnsReply(c, ok)
    \/ \E c \in Callers, ok \in BOOLEAN : PkReply(c, ok)
    \/ \E c \in Callers, ok \in BOOLEAN : FkReply(c, ok)
    \/ ClearSchemaCache
    \/ GetCachedSchema

\* introspections of concurrent callers, cache clears and cache reads
SpecSchema == InitSchema /\ [][NextSchema]_vars

(***************************************************************************)
(* Properties of the schema cache (under SpecSchema).                      *)
(***************************************************************************)
\* C11: a call of introspectSchema without forceRefresh that finds a schema
\* in the cache, even one with no tables, issues no catalog query, leaves
\* the cache as it was and returns the cached schema (so a second
\* non-forced call in a row queries nothing).
C11_CacheHitNoQuery ==
    \A c \in Callers :
        (icall[c].pc # "idle" /\ icall[c].cacheBefore.present /\ ~icall[c].force)
            => /\ icall[c].pc = "done"
               /\ icall[c].queries = 0
               /\ icall[c].result = icall[c].cacheBefore
               /\ icall[c].cacheAfter = icall[c].cacheBefore

\* a non-forced call answered from a cached schema that has no tables
C11_Witness ==
    \E c \in Callers :
        /\ icall[c].pc = "done"
        /\ ~icall[c].force
        /\ icall[c].cacheBefore.present
        /\ icall[c].cacheBefore.tables = << >>
        /\ icall[c].result = icall[c].cacheBefore

\* C12: a call of introspectSchema that is not answered from the cache and
\* succeeds has issued the catalog queries (one for the tables, three per
\* table), has replaced the cache by the schema it assembled, stamped anew,
\* and returns what the cache holds at the moment it returns.
C12_StoreThenReturn ==
    \A c \in Callers :
        (icall[c].pc = "done" /\ ~icall[c].hit)
            => /\ icall[c].queries = 1 + 3 * Len(catalog)
               /\ Len(icall[c].tables) = Len(catalog)
               /\ icall[c].cacheAfter =
                      [present |-> TRUE, tables |-> icall[c].tables,
                       timestamp |-> icall[c].cacheAfter.timestamp]
               /\ icall[c].cacheAfter.timestamp > icall[c].cacheBefore.timestamp
               /\ icall[c].result = icall[c].cacheAfter

\* a forced call that replaced a cached schema by one with two tables
C12_Witness ==
    \E c \in Callers :
        /\ icall[c].pc = "done"
        /\ ~icall[c].hit
        /\ icall[c].cacheBefore.present
        /\ Len(icall[c].result.tables) = 2
        /\ icall[c].result # icall[c].cacheBefore

\* C13: getCachedSchema issues no query and returns nothing exactly when no
\* introspection has stored a schema since the start or the last
\* clearSchemaCache; the cache is empty exactly then, so a non-forced
\* introspectSchema call that follows a clear queries the catalog again.
C13_CachedExactlyWhenStored ==
    /\ schemaCache.present <=> sinceClear
    /\ gotSchema.called =>
          /\ gotSchema.queries = 0
          /\ gotSchema.value.present <=> gotSchema.sinceClear
    /\ \A c \in Callers :
          (icall[c].pc # "idle" /\ ~icall[c].cacheBefore.present)
              => ~icall[c].hit /\ icall[c].queries >= 1

\* getCachedSchema returned nothing after a schema had been stored, and a
\* non-forced call then queried the catalog again
C13_Witness ==
    /\ gotSchema.called
    /\ ~gotSchema.value.present
    /\ gotSchema.stamps > 0
    /\ \E c \in Callers :
          /\ icall[c].pc = "done"
          /\ ~icall[c].force
          /\ ~icall[c].cacheBefore.present
          /\ icall[c].queries >= 1
          /\ icall[c].result.timestamp > gotSchema.stamps

(***************************************************************************)
(* parseLLMResponse on every reply (SpecParse).                            *)
(***************************************************************************)
InitParse ==
    /\ llmReply \in ReplyTexts
    /\ llmParsed = NotParsed
    /\ promptArgs = NoPromptArgs
    /\ promptText = << >>
    /\ ExecAtRest
    /\ GenAtRest
    /\ SchemaAtRest
    /\ PostAtRest
    /\ OtherAtRest

NextParse == ParseLLMResponseCall

\* one call of parseLLMResponse on each reply
SpecParse == InitParse /\ [][NextParse]_vars

(***************************************************************************)
(* Properties of parseLLMResponse (under SpecParse).                       *)
(***************************************************************************)
ConfidenceValues == {JsString(txtHigh), JsString(txtMedium), JsString(txtLow)}

\* what JSON.parse makes of the fence-stripped reply
ReplyJson == JsonParse(JsonStr(llmReply))

\* C14: parseLLMResponse never raises an error: whatever the reply (JSON of
\* any kind, null included, fenced or not, prose, the empty text), it returns
\* a result that holds a sql, an explanation and a confidence.
C14_NeverFails ==
    llmParsed.done =>
        /\ llmParsed.result.kind = "return"
        /\ llmParsed.result.sql.t # "undefined"
        /\ llmParsed.result.explanation.t # "undefined"
        /\ llmParsed.result.confidence.t # "undefined"

\* a fenced reply whose JSON text is null has been parsed
C14_Witness ==
    /\ llmParsed.done
    /\ llmParsed.result.kind = "return"
    /\ llmReply # JsonStr(llmReply)
    /\ ~ReplyJson.threw
    /\ ReplyJson.value.t = "null"

\* C15: the confidence returned is always high, medium or low: on the JSON
\* path the confidence of the reply when that is one of the three, medium
\* when it is missing or anything else; on the fallback path low.
C15_ConfidenceOneOfThree ==
    llmParsed.done =>
        LET given == GetProperty(ReplyJson.value, keyConfidence)
            r == llmParsed.result
        IN  /\ r.confidence \in ConfidenceValues
            /\ r.path = "json" =>
                  r.confidence = IF given \in ConfidenceValues
                                 THEN given ELSE JsString(txtMedium)
            /\ r.path = "fallback" => r.confidence = JsString(txtLow)

\* a reply whose confidence is a text other than the three came back medium
C15_Witness ==
    /\ llmParsed.done
    /\ llmParsed.result.path = "json"
    /\ GetProperty(ReplyJson.value, keyConfidence).t = "str"
    /\ GetProperty(ReplyJson.value, keyConfidence) \notin ConfidenceValues
    /\ llmParsed.result.confidence = JsString(txtMedium)

\* the reply is the text of a JSON object
IsJsonObjectText(text) ==
    ~JsonParse(text).threw /\ JsonParse(text).value.t = "obj"

\* j in a fence: the opening marker with its tag, j on its own lines, the
\* closing marker
Fenced(tag, j) == fence \o tag \o <<"\n">> \o j \o <<"\n">> \o fence

FenceTags == { <<"j","s","o","n">>, <<"s","q","l">>, << >> }

Triple(r) == <<r.sql, r.explanation, r.confidence>>

\* C16: for every JSON object text j, parseLLMResponse of j in a fence (tag
\* json, another tag, or no tag) gives the same sql, explanation and
\* confidence as parseLLMResponse of j alone.
C16_FenceTransparent ==
    (llmParsed.done /\ IsJsonObjectText(llmReply)) =>
        \A tag \in FenceTags :
            Triple(parseLLMResponse(Fenced(tag, llmReply))) = Triple(llmParsed.result)

\* the substring C17 describes: from the first SELECT, whatever the case, to
\* the first semicolon after it or to the end; the whole text without SELECT
ClaimedExtract(text) ==
    LET starts == {p \in 1..Len(text) : WordAtI(text, p, kwSelect)}
    IN  IF starts = {} THEN text
        ELSE LET p == Least(starts)
                 semis == {q \in (p + 6)..Len(text) : text[q] = ";"}
             IN  SubSeq(text, p, IF semis = {} THEN Len(text) ELSE Least(semis))

\* C17: the fallback path is taken only when JSON.parse of the fence-stripped
\* reply throws (every valid JSON text gets the primary-path result); on the
\* fallback path the sql is the first substring from SELECT to the first
\* semicolon or the end of the text, or the whole reply when there is none,
\* the explanation is 'Extracted SQL from response' and the confidence low.
C17_FallbackOnlyOnParseError ==
    llmParsed.done =>
        /\ llmParsed.result.path = "fallback" <=> ReplyJson.threw
        /\ llmParsed.result.path = "fallback" =>
              /\ llmParsed.result.sql = JsString(ClaimedExtract(llmReply))
              /\ llmParsed.result.explanation = JsString(txtExtracted)
              /\ llmParsed.result.confidence = JsString(txtLow)

(***************************************************************************)
(* buildUserPrompt on every history (SpecPrompt).                          *)
(***************************************************************************)
InitPrompt ==
    /\ promptArgs \in { [called |-> FALSE,
                         naturalLanguageQuery |-> "orders per customer",
                         schemaContext |-> "DATABASE SCHEMA:",
                         previousQueries |-> h] : h \in Histories }
    /\ promptText = << >>
    /\ llmReply = << >>
    /\ llmParsed = NotParsed
    /\ ExecAtRest
    /\ GenAtRest
    /\ SchemaAtRest
    /\ PostAtRest
    /\ OtherAtRest

NextPrompt == BuildUserPromptCall

\* one call of buildUserPrompt on each history
SpecPrompt == InitPrompt /\ [][NextPrompt]_vars

(***************************************************************************)
(* Properties of buildUserPrompt (under SpecPrompt).                       *)
(***************************************************************************)
\* the (question, SQL) pairs that stand in a prompt, in the order they stand
RECURSIVE PairsIn(_)
PairsIn(prompt) ==
    IF Len(prompt) < 4 THEN << >>
    ELSE IF prompt[1] = pcUser /\ prompt[3] = pcSql
    THEN <<[nl |-> prompt[2], sql |-> prompt[4]]>> \o PairsIn(SubSeq(prompt, 5, Len(prompt)))
    ELSE PairsIn(Tail(prompt))

PositionsOf(prompt, piece) == {i \in 1..Len(prompt) : prompt[i] = piece}

\* C18: for a history of n pairs the prompt holds exactly the last min(n, 3)
\* pairs, in their order, after the schema text and before the user
\* question; without a history, or with an empty one, the previous-queries
\* block is not there at all.
C18_LastThreePairs ==
    promptArgs.called =>
        LET h == promptArgs.previousQueries.items
            n == Len(h)
            k == IF n < 3 THEN n ELSE 3
        IN  /\ PairsIn(promptText) = [i \in 1..k |-> h[n - k + i]]
            /\ promptText[1] = promptArgs.schemaContext
            /\ Cardinality(PositionsOf(promptText, pcQuestion)) = 1
            /\ \A i \in PositionsOf(promptText, pcUser) \cup PositionsOf(promptText, pcPrevious) :
                  /\ i > 1
                  /\ \A q \in PositionsOf(promptText, pcQuestion) : i < q
            /\ Cardinality(PositionsOf(promptText, pcPrevious)) = (IF n = 0 THEN 0 ELSE 1)
            /\ n = 0 => PositionsOf(promptText, pcUser) \cup PositionsOf(promptText, pcSql) = {}

\* a prompt built from five pairs that are not all the same
C18_Witness ==
    /\ promptArgs.called
    /\ Len(promptArgs.previousQueries.items) = 5
    /\ promptArgs.previousQueries.items[1] # promptArgs.previousQueries.items[3]
    /\ promptArgs.previousQueries.items[2] # promptArgs.previousQueries.items[5]
    /\ Len(PairsIn(promptText)) = 3

(***************************************************************************)
(* One POST /api/query request from its arrival to its response (SpecPost).*)
(***************************************************************************)
InitPost ==
    /\ postPc = "idle"
    /\ postBody \in PostBodies
    /\ postLlm = GenNone
    /\ postResponse = NoResponse
    /\ postLog = << >>
    /\ envProvider \in {"undefined", "claude"}
    /\ envKeys \in [{"gemini", "claude"} -> BOOLEAN]
    /\ clients = [gemini |-> FALSE, claude |-> FALSE]
    /\ genPc = "idle"
    /\ genPref = "undefined"
    /\ genPrimary = "none"
    /\ genFallback = "none"
    /\ genCalls = <<>>
    /\ genPending = GenNone
    /\ genPrimaryError = GenNone
    /\ genResult = GenNone
    /\ catalog \in Catalogs
    /\ schemaCache = NoSchema
    /\ clock = 0
    /\ icall = [c \in Callers |-> IdleCall]
    /\ sinceClear = FALSE
    /\ gotSchema = NotGot
    /\ ExecAtRest
    /\ PureAtRest
    /\ OtherAtRest

NextPost ==
    \/ PostCall
    \/ PostBodyArrives
    \/ \E ok \in BOOLEAN : TablesReply(PostCaller, ok)
    \/ \E ok \in BOOLEAN : ColumnsReply(PostCaller, ok)
    \/ \E ok \in BOOLEAN : PkReply(PostCaller, ok)
    \/ \E ok \in BOOLEAN : FkReply(PostCaller, ok)
    \/ PostSchemaReturn
    \/ \E outcome \in AllTransportOutcomes : PrimarySettles(outcome)
    \/ PrimaryRejected
    \/ \E outcome \in AllTransportOutcomes : FallbackSettles(outcome)
    \/ FallbackRejected
    \/ PostGenReturn
    \/ \E outcome \in DbOutcomes : ExecuteQueryReturn(outcome)
    \/ PostExecReturn

\* one request, with the introspection, the provider calls and the
\* execution it awaits
SpecPost == InitPost /\ [][NextPost]_vars

\* the calls the handler has made so far
Logged(name) == \E i \in 1..Len(postLog) : postLog[i] = name

\* the provider's response of the request carries a text as its sql, and
\* validateQuery finds that text not valid
GeneratedSqlInvalid ==
    /\ postLlm.kind = "response"
    /\ \E llm \in {LlmFields(postLlm)} :
          llm.sql.t = "str" /\ ~validateQuery(llm.sql.s).valid

\* C19: in a POST request whose generated SQL fails validation the response
\* has status 400 and carries the validator's error, the generated SQL and the
\* explanation, and executeQuery is never called on that SQL: nothing is sent
\* to the database.
C19_InvalidSqlRejected ==
    GeneratedSqlInvalid =>
        /\ postPc = "done"
        /\ \E llm \in {LlmFields(postLlm)} :
              /\ postResponse.status = 400
              /\ ~postResponse.success
              /\ postResponse.error = validateQuery(llm.sql.s).error
              /\ postResponse.generatedSQL = llm.sql
              /\ postResponse.explanation = llm.explanation
        /\ ~Logged("executeQuery")
        /\ exKind = "none"
        /\ exPc = "idle"
        /\ exIssued = << >>

C19_Witness ==
    /\ GeneratedSqlInvalid
    /\ postPc = "done"
    /\ postResponse.status = 400
    /\ postResponse.error = ErrOnlySelect
    /\ postResponse.generatedSQL.t = "str"
    /\ Len(postResponse.generatedSQL.s) > 0
    /\ postResponse.explanation.t = "str"
    /\ Logged("generateSQL")
    /\ exIssued = << >>

\* no provider credential is configured
NoCredential == ~envKeys["gemini"] /\ ~envKeys["claude"]

\* the request has passed the check of its body and of its query
RequestAccepted ==
    /\ postPc \notin {"idle", "awaitBody"}
    /\ postBody.kind = "object"
    /\ postBody.query = "text"

\* no provider has been called and nothing has been executed
NoProviderCallNoExecution ==
    /\ genPc = "idle"
    /\ genCalls = << >>
    /\ ~Logged("generateSQL")
    /\ ~Logged("executeQuery")
    /\ exKind = "none"
    /\ exIssued = << >>

\* C20: a POST request with no provider credential configured ends with an
\* error response before introspectSchema, a provider or executeQuery has been
\* called; a request whose introspected schema has zero tables ends with an
\* error response before a provider or executeQuery has been called.
C20_EarlyErrorOutcomes ==
    /\ (RequestAccepted /\ NoCredential) =>
          /\ postPc = "done"
          /\ ~postResponse.success
          /\ postResponse.status = 500
          /\ postResponse.error = MsgNoProviders
          /\ postLog = << >>
          /\ icall[PostCaller] = IdleCall
          /\ clock = 0
          /\ NoProviderCallNoExecution
    /\ (icall[PostCaller].pc = "done" /\ Len(icall[PostCaller].result.tables) = 0) =>
          /\ postPc \in {"awaitSchema", "done"}
          /\ NoProviderCallNoExecution
          /\ postPc = "done" =>
                /\ ~postResponse.success
                /\ postResponse.status = 400
                /\ postResponse.error = MsgNoTables

C20_Witness ==
    /\ RequestAccepted
    /\ NoCredential
    /\ postPc = "done"
    /\ postResponse.status = 500
    /\ icall[PostCaller].pc = "idle"
    /\ genCalls = << >>

\* the zero-table case of C20: the request has ended on an empty schema
ZeroTablesRejected ==
    /\ postPc = "done"
    /\ icall[PostCaller].pc = "done"
    /\ Len(icall[PostCaller].result.tables) = 0
    /\ postResponse.status = 400
    /\ postLog = <<"introspectSchema">>

(***************************************************************************)
(* The three route handlers, one request at a time (SpecRoutes).           *)
(***************************************************************************)
\* the caller of the GET /api/schema requests
GetCaller == "first"

\* GET /api/schema has been called and has not answered
GetPending ==
    /\ icall[GetCaller].via = "get"
    /\ icall[GetCaller].pc # "idle"
    /\ getResponse[GetCaller].status = 0

\* no request has been made
NoRequestYet ==
    /\ postPc = "idle"
    /\ connPc = "idle"
    /\ icall[GetCaller].pc = "idle"

\* no POST and no connection request has been made, and the last GET
\* /api/schema request has been answered
OnlySchemaRequests ==
    /\ postPc = "idle"
    /\ connPc = "idle"
    /\ ~GetPending

NextRoutes ==
    \/ NoRequestYet /\ PostCall
    \/ PostBodyArrives
    \/ \E ok \in BOOLEAN : TablesReply(PostCaller, ok)
    \/ \E ok \in BOOLEAN : ColumnsReply(PostCaller, ok)
    \/ \E ok \in BOOLEAN : PkReply(PostCaller, ok)
    \/ \E ok \in BOOLEAN : FkReply(PostCaller, ok)
    \/ PostSchemaReturn
    \/ \E outcome \in AllTransportOutcomes : PrimarySettles(outcome)
    \/ PrimaryRejected
    \/ \E outcome \in AllTransportOutcomes : FallbackSettles(outcome)
    \/ FallbackRejected
    \/ PostGenReturn
    \/ \E outcome \in DbOutcomes : ExecuteQueryReturn(outcome)
    \/ PostExecReturn
    \/ \E refresh \in BOOLEAN : OnlySchemaRequests /\ SchemaGetCall(GetCaller, refresh)
    \/ SchemaGetReturn(GetCaller)
    \/ NoRequestYet /\ ConnectionGetCall
    \/ \E outcome \in ConnectionOutcomes : ConnectionGetReturn(outcome)

\* the steps a handler takes by itself: those after a call it awaited has
\* settled, and those after a provider call that getClient rejected at once
HandlerGoesOn ==
    \/ PostSchemaReturn
    \/ PrimaryRejected
    \/ FallbackRejected
    \/ PostGenReturn
    \/ PostExecReturn
    \/ SchemaGetReturn(GetCaller)

\* the steps in which something outside the handlers settles: the body of
\* the request is read, a catalog query, the transport call of a provider,
\* the generated statement or the connection test comes back
AwaitedCallSettles ==
    \/ PostBodyArrives
    \/ \E ok \in BOOLEAN : TablesReply(PostCaller, ok)
    \/ \E ok \in BOOLEAN : ColumnsReply(PostCaller, ok)
    \/ \E ok \in BOOLEAN : PkReply(PostCaller, ok)
    \/ \E ok \in BOOLEAN : FkReply(PostCaller, ok)
    \/ \E outcome \in AllTransportOutcomes : PrimarySettles(outcome)
    \/ \E outcome \in AllTransportOutcomes : FallbackSettles(outcome)
    \/ \E outcome \in DbOutcomes : ExecuteQueryReturn(outcome)
    \/ \E outcome \in ConnectionOutcomes : ConnectionGetReturn(outcome)

\* one POST /api/query request, or one GET /api/connection request, or GET
\* /api/schema requests one after the other.  A handler goes on when the
\* promise it awaits has settled; nothing makes a pending promise settle
\* (the code puts no deadline on the provider calls or the catalog queries).
SpecRoutes == InitPost /\ [][NextRoutes]_vars /\ WF_vars(HandlerGoesOn)

\* a response with success = false and a message
ErrorShaped(response) ==
    /\ ~response.success
    /\ response.status \in {400, 500}
    /\ Len(response.error) > 0

\* an error was raised while the POST request was handled
PostRaised ==
    \/ postBody.kind \in {"invalid", "null"}
    \/ icall[PostCaller].via = "post" /\ icall[PostCaller].pc = "failed"
    \/ postLlm.kind = "throw"
    \/ postLlm.kind = "response" /\ LlmFields(postLlm).sql.t # "str"
    \/ GeneratedSqlInvalid
    \/ exKind = "execute" /\ exResult.kind = "throw"

PostAnswersOnce ==
    /\ postPc # "done" => postResponse = NoResponse
    /\ postPc = "done" =>
          /\ postResponse.status \in {200, 400, 500}
          /\ postResponse.success \/ ErrorShaped(postResponse)
          /\ PostRaised => ErrorShaped(postResponse)

SchemaGetAnswersOnce ==
    icall[GetCaller].via = "get" =>
        /\ icall[GetCaller].pc \in Awaiting => getResponse[GetCaller].status = 0
        /\ getResponse[GetCaller].status # 0 =>
              IF icall[GetCaller].pc = "failed"
              THEN ErrorShaped(getResponse[GetCaller])
              ELSE getResponse[GetCaller].success

ConnectionGetAnswersOnce ==
    /\ connPc # "done" => connResponse = NoConnResponse
    /\ connPc = "done" => connResponse.success /\ connResponse.status = 200

\* no response before the handler ends, one at its end; when request parsing,
\* introspection, generation, validation or execution raised an error the
\* response has success = false and a message
AnswersOnce == PostAnswersOnce /\ SchemaGetAnswersOnce /\ ConnectionGetAnswersOnce

\* every request that was made gets its response
EveryRequestAnswered ==
    /\ (postPc # "idle") ~> (postPc = "done" /\ postResponse.status # 0)
    /\ GetPending ~> (icall[GetCaller].via = "get" /\ getResponse[GetCaller].status # 0)
    /\ (connPc = "awaitTest") ~> (connPc = "done" /\ connResponse.status # 0)

\* C21 as stated: every POST query, GET schema and GET connection request
\* ends with one response, sent when the handler ends and not before; when
\* request parsing, introspection, generation, validation or execution raised
\* an error the response has success = false and a message.
C21_OneResponsePerRequest == []AnswersOnce /\ EveryRequestAnswered

\* C21 as amended: a request has no response before its handler ends and one
\* response at its end, error-shaped when an error was raised; and every
\* request ends with its response provided that each call it awaits settles.
C21_OneResponseWhenCallsSettle ==
    /\ []AnswersOnce
    /\ WF_vars(AwaitedCallSettles) => EveryRequestAnswered

C21_Witness ==
    /\ postPc = "done"
    /\ postLlm.kind = "throw"
    /\ postResponse.status = 500
    /\ Len(postResponse.error) > 0
    /\ postLog = <<"introspectSchema", "generateSQL">>

\* the rejection PostgreSQL gives when statement_timeout has run out
StatementTimeout == Thrown(TRUE, msgCanceling)

\* the error that names the configured bound in milliseconds
TimedOutError(result) ==
    /\ result.kind = "throw"
    /\ result.isError
    /\ Contains(result.message,
                <<"Q","u","e","r","y"," ","t","i","m","e","d"," ","o","u","t",
                  " ","a","f","t","e","r"," ","3","0","0","0","0","m","s",".">>)

\* the generic execution error around the message of the failure
ExecutionErrorAround(result, failure) ==
    /\ result.kind = "throw"
    /\ result.isError
    /\ result.message =
           <<"Q","u","e","r","y"," ","e","x","e","c","u","t","i","o","n"," ",
             "e","r","r","o","r",":"," ">> \o failure.message

\* C22: when the database call of executeQuery fails with a statement timeout
\* executeQuery fails with the timed-out error naming 30000 ms; on every other
\* database failure it fails with the execution error wrapping the original
\* message, and never with the timed-out error.
C22_TimeoutOrExecutionError ==
    [][\A outcome \in DbOutcomes :
          (outcome.kind = "throw" /\ ExecuteQueryReturn(outcome)) =>
              IF outcome = StatementTimeout
              THEN TimedOutError(exResult')
              ELSE ExecutionErrorAround(exResult', outcome)
                   /\ ~TimedOutError(exResult')]_vars

\* the part of C22 about a statement timeout
TimeoutIsNamed ==
    [][ExecuteQueryReturn(StatementTimeout) => TimedOutError(exResult')]_vars

\* C27: the statement executeQuery hands to the database for a text that
\* validateQuery accepts is itself accepted by validateQuery.
C27_RewriteStaysValid ==
    (exKind = "execute" /\ exValidation.valid) =>
        \A i \in 1..Len(exIssued) : validateQuery(exIssued[i]).valid

(***************************************************************************)
(* Introspection of every shape of catalog, and the formatter (SpecTables).*)
(***************************************************************************)
InitTables ==
    /\ catalog \in WideCatalogs
    /\ schemaCache = NoSchema
    /\ clock = 0
    /\ icall = [c \in Callers |-> IdleCall]
    /\ sinceClear = FALSE
    /\ gotSchema = NotGot
    /\ getResponse = [c \in Callers |-> NoGetResponse]
    /\ connPc = "idle"
    /\ connResponse = NoConnResponse
    /\ pcall = [c \in Callers |-> IdleProviderCall]
    /\ fmtSchema = NoSchema
    /\ fmtText = << >>
    /\ ExecAtRest
    /\ GenAtRest
    /\ PureAtRest
    /\ PostAtRest

NextTables ==
    \/ \E forceRefresh \in BOOLEAN : IntrospectSchemaCall("first", forceRefresh)
    \/ \E ok \in BOOLEAN : TablesReply("first", ok)
    \/ \E ok \in BOOLEAN : ColumnsReply("first", ok)
    \/ \E ok \in BOOLEAN : PkReply("first", ok)
    \/ \E ok \in BOOLEAN : FkReply("first", ok)
    \/ FormatSchemaForLLMCall("first")

\* introspections one after the other, each result formatted or not
SpecTables == InitTables /\ [][NextTables]_vars

\* the columns of a table that bear a name
ColumnsNamed(table, name) ==
    {i \in 1..Len(table.columns) : table.columns[i].name = name}

\* the invariant of TableSchema
KeysMatchColumns(table) ==
    /\ \A k \in 1..Len(table.primaryKeys) :
          /\ Cardinality(ColumnsNamed(table, table.primaryKeys[k])) = 1
          /\ \A i \in ColumnsNamed(table, table.primaryKeys[k]) :
                table.columns[i].isPrimary
    /\ \A i \in 1..Len(table.columns) :
          table.columns[i].isPrimary =>
              \E k \in 1..Len(table.primaryKeys) :
                  table.primaryKeys[k] = table.columns[i].name

\* C23: in every TableSchema introspectSchema produces, whatever rows the
\* catalog queries return, every name in primaryKeys is the name of exactly
\* one column, that column has isPrimary = true, and every column with
\* isPrimary = true is named in primaryKeys.
C23_PrimaryKeysMatchColumns ==
    \A c \in Callers :
        icall[c].pc = "done" =>
            \A t \in 1..Len(icall[c].result.tables) :
                KeysMatchColumns(icall[c].result.tables[t])

\* the part of C23 that holds: a column is flagged exactly when it is named
FlaggedIffNamed ==
    \A c \in Callers :
        icall[c].pc = "done" =>
            \A t \in 1..Len(icall[c].result.tables) :
                LET table == icall[c].result.tables[t]
                IN  \A i \in 1..Len(table.columns) :
                        table.columns[i].isPrimary <=>
                            \E k \in 1..Len(table.primaryKeys) :
                                table.primaryKeys[k] = table.columns[i].name

\* the lines of a text
RECURSIVE SplitLines(_, _)
SplitLines(text, line) ==
    IF Len(text) = 0 THEN <<line>>
    ELSE IF Head(text) = "\n" THEN <<line>> \o SplitLines(Tail(text), << >>)
    ELSE SplitLines(Tail(text), Append(line, Head(text)))

\* the reference rendering of the flags, case by case
ReferenceFlags(col) ==
    CASE col.isPrimary /\ ~col.isNullable ->
            <<" [", "PRIMARY KEY", ", ", "NOT NULL", "]">>
      [] col.isPrimary /\ col.isNullable -> <<" [", "PRIMARY KEY", "]">>
      [] ~col.isPrimary /\ ~col.isNullable -> <<" [", "NOT NULL", "]">>
      [] OTHER -> << >>

HasComment(x) == x.comment \notin {"", NullValue}

ReferenceColumnLine(col) ==
    <<"    - ", col.name, ": ", col.type>> \o ReferenceFlags(col)
        \o (IF HasComment(col) THEN <<" -- ", col.comment>> ELSE << >>)

\* the lines of one table in the reference rendering
ReferenceTable(table) ==
    << <<"TABLE: ", table.name>> >>
        \o (IF HasComment(table)
            THEN << <<"  Description: ", table.comment>> >> ELSE << >>)
        \o << <<"  Columns:">> >>
        \o [i \in 1..Len(table.columns) |-> ReferenceColumnLine(table.columns[i])]
        \o (IF table.foreignKeys = << >> THEN << >>
            ELSE << <<"  Foreign Keys:">> >>
                   \o [i \in 1..Len(table.foreignKeys) |->
                         <<"    - ", table.foreignKeys[i].columnName, " -> ",
                           table.foreignKeys[i].referencedTable, ".",
                           table.foreignKeys[i].referencedColumn>>])
        \o << << >> >>

RECURSIVE ReferenceLines(_)
ReferenceLines(tables) ==
    IF tables = << >> THEN << >>
    ELSE ReferenceTable(Head(tables)) \o ReferenceLines(Tail(tables))

\* the lines that are the Foreign Keys header
ForeignKeyHeaders(lines) == {i \in 1..Len(lines) : lines[i] = <<"  Foreign Keys:">>}

\* C24: the text formatSchemaForLLM returns for a schema is the reference
\* rendering of that schema: per column the flags PRIMARY KEY iff isPrimary
\* and NOT NULL iff not nullable, in that order, no brackets without a flag,
\* the ' -- comment' suffix iff the column has a comment; one 'Foreign Keys:'
\* header for each table with at least one foreign key and none for the others.
C24_ReferenceRendering ==
    fmtSchema.present =>
        /\ SplitLines(fmtText, << >>) =
              << <<"DATABASE SCHEMA:">>, << >> >> \o ReferenceLines(fmtSchema.tables)
        /\ Cardinality(ForeignKeyHeaders(SplitLines(fmtText, << >>))) =
              Cardinality({t \in 1..Len(fmtSchema.tables) :
                              Len(fmtSchema.tables[t].foreignKeys) > 0})

C24_Witness ==
    /\ fmtSchema.present
    /\ Len(fmtSchema.tables) = 1
    /\ fmtSchema.tables[1].foreignKeys = << >>
    /\ ForeignKeyHeaders(SplitLines(fmtText, << >>)) = {}
    /\ \E i \in 1..Len(SplitLines(fmtText, << >>)) :
          SplitLines(fmtText, << >>)[i] =
              <<"    - ", "id", ": ", "int4", " [", "PRIMARY KEY", ", ",
                "NOT NULL", "]", " -- ", "surrogate key">>
    /\ \E i \in 1..Len(SplitLines(fmtText, << >>)) :
          SplitLines(fmtText, << >>)[i] = <<"    - ", "note", ": ", "text">>

(***************************************************************************)
(* Concurrent introspections, failures and clears (under SpecSchema).      *)
(***************************************************************************)
\* the callers whose last call queried the catalog and returned a schema
Completed == {c \in Callers : icall[c].pc = "done" /\ ~icall[c].hit}

\* C25: concurrent calls of introspectSchema that are not cache hits each
\* return the schema they assembled themselves (their own tables under
\* their own stamp, no two calls the same stamp), and once no call is in
\* flight a cache that was not cleared since holds the schema stored
\* last: the newest stamp, and the result of the call that completed last.
C25_LastWriterWins ==
    /\ \A c \in Completed :
          /\ icall[c].result =
                 DatabaseSchema(icall[c].tables, icall[c].result.timestamp)
          /\ Len(icall[c].tables) = Len(catalog)
          /\ icall[c].result.timestamp \in (icall[c].cacheBefore.timestamp + 1)..clock
    /\ \A c, d \in Completed :
          c # d => icall[c].result.timestamp # icall[d].result.timestamp
    /\ (Running = {} /\ schemaCache.present) =>
          /\ schemaCache.timestamp = clock
          /\ \A c \in Completed :
                IF icall[c].result.timestamp = clock
                THEN schemaCache = icall[c].result
                ELSE schemaCache # icall[c].result

\* two forced calls that both began while the cache held the first schema
\* stored (so each was in flight when the other began or ended) have both
\* returned: each its own schema, the cache holds the one stored last
C25_Witness ==
    /\ Running = {}
    /\ clock = 3
    /\ Len(catalog) = 2
    /\ \A c \in Callers :
          /\ icall[c].pc = "done"
          /\ icall[c].force
          /\ icall[c].cacheBefore.timestamp = 1
    /\ icall["first"].result.timestamp = 3
    /\ icall["second"].result.timestamp = 2
    /\ schemaCache = icall["first"].result

\* every table of the catalog is in the schema, with all its columns and keys
FullyAssembled(schema) ==
    /\ Len(schema.tables) = Len(catalog)
    /\ \A i \in 1..Len(catalog) :
          /\ schema.tables[i].name = catalog[i].table_name
          /\ Len(schema.tables[i].columns) = Len(catalog[i].columns)
          /\ schema.tables[i].primaryKeys = PrimaryKeysOf(catalog[i].pk)
          /\ Len(schema.tables[i].foreignKeys) = Len(catalog[i].fk)

\* the step in which a catalog query of the call of c is rejected
FailStep(c) == icall[c].pc \in Awaiting /\ icall'[c].pc = "failed"

\* the rejection leaves the cache alone; when no other call stored a schema
\* and nobody cleared the cache during the call, the cache is the one the
\* call found
FailureLeavesCache ==
    \A c \in Callers :
        FailStep(c) =>
            /\ icall'[c].error = CatalogError
            /\ schemaCache' = schemaCache
            /\ (~icall[c].cleared /\ clock = icall[c].stampsBefore)
                   => schemaCache' = icall[c].cacheBefore

\* the cache is empty, or a complete schema under the stamp of a store
CacheEmptyOrComplete ==
    IF schemaCache.present
    THEN FullyAssembled(schemaCache) /\ schemaCache.timestamp \in 1..clock
    ELSE schemaCache = NoSchema

\* C28: a rejected catalog query fails the introspectSchema call and leaves
\* the cache as it was; the cache is always empty or a schema with every
\* table of the catalog, stored by an introspection that completed.
C28_FailureKeepsCache == [](CacheEmptyOrComplete) /\ [][FailureLeavesCache]_vars

\* the foreign-key query of the second table was rejected after a schema had
\* been cached: the call failed, the cached schema is still there
C28_Witness ==
    \E c \in Callers :
        /\ icall[c].pc = "failed"
        /\ icall[c].force
        /\ icall[c].queries = 7
        /\ icall[c].cacheBefore.present
        /\ schemaCache = icall[c].cacheBefore
        /\ Len(schemaCache.tables) = 2

\* C29: a call of introspectSchema whose catalog queries were running when
\* the cache was cleared does not store its schema in the cache.
C29_NoPublishAfterClear ==
    [][\A c \in Callers :
          (icall[c].pc \in Awaiting /\ icall[c].cleared /\ icall'[c].pc = "done")
              => schemaCache' # icall'[c].result]_vars

\* the calls of GET /api/schema with refresh = true
ForcedGets == {c \in Callers : icall[c].via = "get" /\ icall[c].force}

\* a forced GET cleared the cache before introspecting and queries the catalog
ClearedBeforeIntrospecting ==
    \A c \in ForcedGets :
        ~icall[c].cacheBefore.present /\ ~icall[c].hit /\ icall[c].queries >= 1

\* when the introspection of a forced GET fails, the schema cached before
\* the request is gone: the cache is empty unless another call has stored a
\* newer schema meanwhile
FailedRefreshLeavesNoOldSchema ==
    \A c \in ForcedGets :
        FailStep(c) =>
            /\ clock = icall[c].stampsBefore => schemaCache' = NoSchema
            /\ schemaCache'.present
                   => schemaCache'.timestamp > icall[c].stampsBefore

\* after a forced GET failed and no schema was stored since it began, a call
\* that begins is not answered from the cache
NextCallQueriesAgain ==
    (\E c \in ForcedGets : icall[c].pc = "failed" /\ clock = icall[c].stampsBefore)
        => \A d \in Callers :
              (icall[d].pc \notin Awaiting /\ icall'[d] # icall[d])
                  => icall'[d].pc = "awaitTables" /\ icall'[d].queries = 1

\* C30: GET /api/schema with refresh = true clears the cache before it
\* introspects; when the introspection fails the schema cached before is
\* gone, the cache is empty, and the next non-forced introspectSchema call
\* queries the catalog again.
C30_FailedRefreshEmptiesCache ==
    /\ [](ClearedBeforeIntrospecting)
    /\ [][FailedRefreshLeavesNoOldSchema]_vars
    /\ [][NextCallQueriesAgain]_vars

\* a schema had been stored, a forced GET failed, the cache is empty and a
\* non-forced call of the other caller went to the catalog
C30_Witness ==
    \E c \in ForcedGets, d \in Callers :
        /\ c # d
        /\ icall[c].pc = "failed"
        /\ icall[c].stampsBefore = 1
        /\ clock = 1
        /\ ~schemaCache.present
        /\ icall[d].pc \in Awaiting
        /\ ~icall[d].force
        /\ icall[d].stampsBefore = 1

(***************************************************************************)
(* Provider calls that overlap (SpecClients).                              *)
(***************************************************************************)
InitClients ==
    /\ envProvider = "undefined"
    /\ envKeys \in [{"gemini", "claude"} -> BOOLEAN]
    /\ clients = [gemini |-> FALSE, claude |-> FALSE]
    /\ genPc = "idle"
    /\ genPref = "undefined"
    /\ genPrimary = "none"
    /\ genFallback = "none"
    /\ genCalls = <<>>
    /\ genPending = GenNone
    /\ genPrimaryError = GenNone
    /\ genResult = GenNone
    /\ ExecAtRest
    /\ SchemaAtRest
    /\ PureAtRest
    /\ PostAtRest
    /\ OtherAtRest

NextClients ==
    \/ \E c \in Callers, fn \in {"gemini", "claude"} : ProviderCall(c, fn)
    \/ \E c \in Callers, outcome \in AllTransportOutcomes : ProviderSettles(c, outcome)

\* provider calls of two callers, begun and settled in any order
SpecClients == InitClients /\ [][NextClients]_vars

\* the calls that are waiting for the transport of provider fn
Waiting(fn) == {c \in Callers : pcall[c].pc = "awaitTransport" /\ pcall[c].fn = fn}

\* C26 as stated: the clients are made on first use without a guard, so
\* while the call that made a provider's client is still in flight, a call of
\* another caller to the same provider can construct the client again; and
\* every call past getClient holds a valid client.
C26_DuplicateInitPossible ==
    \A fn \in {"gemini", "claude"} :
        \A c \in Waiting(fn) :
            /\ pcall[c].client
            /\ pcall[c].built =>
                  \A d \in Callers \ Waiting(fn) :
                      ENABLED (ProviderCall(d, fn) /\ pcall'[d].built)

\* a client, once constructed, stays in place
ClientKept == \A fn \in {"gemini", "claude"} : clients[fn] => clients'[fn]

\* a call constructs a client only while the provider has none
BuiltOnlyWhenAbsent ==
    \A c \in Callers :
        (pcall[c].pc # "awaitTransport" /\ pcall'[c].pc = "awaitTransport"
            /\ pcall'[c].built) => ~clients[pcall'[c].fn]

\* of the calls in flight on one provider at most one constructed the
\* client, each holds a client, and the client is in the memo
OneClientPerProvider ==
    \A fn \in {"gemini", "claude"} :
        /\ \A c, d \in Waiting(fn) : (pcall[c].built /\ pcall[d].built) => c = d
        /\ \A c \in Waiting(fn) : pcall[c].client /\ clients[fn]

\* C26, amended: the clients are made on first use; getClient runs to its
\* end without yielding, so however generate calls overlap a provider's
\* client is constructed at most once and then kept, and every call that
\* gets past getClient proceeds with that client.
C26_InitializedOnce ==
    /\ [](OneClientPerProvider)
    /\ [][ClientKept]_vars
    /\ [][BuiltOnlyWhenAbsent]_vars

\* two calls to claude are in flight at once, the first use of the provider:
\* one of them constructed the client, the other got the same client
C26_Witness ==
    /\ Waiting("claude") = Callers
    /\ pcall["first"].built
    /\ ~pcall["second"].built
    /\ pcall["second"].client
    /\ ~clients["gemini"]

====
